---- MODULE Spec2Model ----
(***************************************************************************)
(* Verification model of the temportui interaction engine.                 *)
(*                                                                         *)
(* Part 1 (SpecConn): the connection supervisor (App.connectionMonitor,    *)
(* App.attemptReconnect, App.Stop) together with the provider's connection *)
(* state (Client.CheckConnection, Client.Reconnect, Client.ListNamespaces) *)
(* and the closures the supervisor posts to the UI thread.                 *)
(*                                                                         *)
(* Part 2 (SpecList): the workflow list screen (WorkflowList.loadData and  *)
(* the closure it posts, applyFilter, populateTable, updateStats, the      *)
(* filter command bar and the multi-select marks of ui.Table) under the    *)
(* shell's view stack, key hints and status bar.                           *)
(*                                                                         *)
(* Part 3 (SpecRefresh): the list's auto-refresh ticker and goroutine.     *)
(*                                                                         *)
(* Part 4 (SpecDetail): the workflow detail screen (WorkflowDetail.loadData*)
(* with its two parallel fetches, showError) and the confirmed mutations   *)
(* (showCancelConfirm, executeCancelWorkflow, showTerminateConfirm,        *)
(* executeTerminateWorkflow) under the shell's global key handler.         *)
(*                                                                         *)
(* Part 5 (SpecBatch): the batch operations of the workflow list           *)
(* (showBatchCancelConfirm, executeBatchCancel and their terminate twins). *)
(*                                                                         *)
(* Part 6 (SpecTheme): the theme registry (SetTheme, applyGlobalStyles,    *)
(* the colour getters) and the theme selector of the shell.                *)
(*                                                                         *)
(* Part 7 (SpecHistory): the visibility-query input of the workflow list   *)
(* and its search history (addToHistory, historyPrevious, historyNext).    *)
(*                                                                         *)
(* Part 8 (SpecTq): the task-queue screen (TaskQueueView.loadData,         *)
(* loadPollers, populateQueueTable, updateQueueInfo).                      *)
(*                                                                         *)
(* Part 9 (SpecStack): the view stack under pushes, pops, q and the        *)
(* closure of executeDeleteWorkflow.                                       *)
(*                                                                         *)
(* Part 10 (SpecConnFair): Part 1 with its goroutines scheduled fairly.    *)
(*                                                                         *)
(* Goroutines are modelled as interleaved processes.  A step boundary is   *)
(* placed wherever a goroutine blocks or releases the provider's mutex, so *)
(* that every interleaving the Go scheduler allows is a behaviour here.    *)
(***************************************************************************)
EXTENDS Integers, Sequences, FiniteSets, Bags, TLC

\* ---------------------------------------------------------------- constants
\* Durations in seconds.
reconnectInitialBackoff == 2
reconnectMaxBackoff == 30
\* wl.maxHistorySize, set by NewWorkflowList.
maxHistorySize == 50
\* The empty query text; the other queries are numbered from 1.
NoQuery == 0

\* ------------------------------------------------------------------- bounds
\* Reconnect goroutines that may exist at the same time.
MaxTasks == 2
\* Closures that may wait in the UI thread's update queue.
MaxQueue == 2
\* loadData calls in one behaviour.
MaxFetches == 2
\* Characters typed into the filter command bar.
MaxFilterLen == 1
\* Tickers startAutoRefresh creates in one behaviour.
MaxTickers == 2
\* WorkflowDetail.loadData calls in one behaviour.
MaxLoads == 2
\* Confirmed mutations in one behaviour.
MaxMutations == 2
\* Confirmed batch operations in one behaviour.
MaxBatches == 1
\* The operator browses at most this many entries back from the newest.
MaxBrowse == 3
\* The queues a namespace has, and the poller fetches after which the
\* operator stops moving the selection and refreshing.
MaxQueues == 2
MaxTqKeys == 2

VARIABLES
    \* --- environment
    serverUp,        \* the Temporal server answers RPCs and dials
    \* --- temporal.Client
    client,          \* c.client: "nil" or "live" (a dialled handle)
    connected,       \* c.connected
    \* --- view.App
    stopMonitor,     \* TRUE once close(a.stopMonitor) has happened
    uiRunning,       \* the tview event loop is running
    reconnecting,    \* a.reconnecting
    backoff,         \* connectionMonitor's local backoff
    monPc,           \* connectionMonitor's position
    monCl,           \* CheckConnection's local cl: "none", "live", "closed"
    monErr,          \* CheckConnection's result: TRUE = err != nil
    sleeping,        \* attemptReconnect goroutines in their backoff sleep:
                     \* a bag of the backoff each was started with
    dialing,         \* attemptReconnect goroutines inside Reconnect
    uiQueue,         \* closures posted with QueueUpdateDraw, oldest first
    statsConnected,  \* StatsBar.connected
    \* --- a screen's fetch goroutine calling Client.ListNamespaces
    qPc,             \* "idle" or "rpc"
    qCl,             \* the handle the call runs on: "none", "live", "closed"
    qOut,            \* outcome of the last call: "none", "result", "error", "panic"
    \* --- history (observation only, never read by an action's guard)
    streak,          \* reconnect attempts spawned since the last success
    probeFresh,      \* the probe being handled began after the last success
    \* --- ui.App shell
    stack,           \* ui.Pages: the view stack, root first
    cbActive,        \* CommandBar.active
    statsWorkflows,  \* StatsBar running, completed, failed
    menuHints,       \* Menu: the hints on display
    \* --- view.WorkflowList
    wl,              \* the WorkflowList on the stack (NoList when none)
    fetches,         \* loadData goroutines that have not posted yet
    issued,          \* loadData calls so far (numbers the fetches)
    \* --- history (observation only)
    shownSeq,        \* the fetch whose outcome the list displays (0: none)
    applied,         \* closures of loadData run on the list so far
    inOrder,         \* the list's fetches completed in issue order so far
    \* --- auto-refresh of the WorkflowList
    arOn,            \* wl.autoRefresh
    refreshTicker,   \* wl.refreshTicker: 0 (nil) or the number of the ticker
    liveTickers,     \* tickers created and not stopped
    tickersMade,     \* time.NewTicker calls so far (numbers the tickers)
    arTasks,         \* goroutines of startAutoRefresh that have not returned
    arPanic,         \* a goroutine dereferenced a nil ticker: the process died
    \* --- view.WorkflowDetail and its confirmation modal
    wd,              \* the WorkflowDetail on the stack (NoDetail when none)
    modal,           \* the page added on top with Pages.AddPage, or "none"
    calls,           \* goroutines of the detail inside a Provider call
    wdLoads,         \* WorkflowDetail.loadData calls so far
    mutations,       \* executeCancelWorkflow/executeTerminateWorkflow calls so far
    \* --- batch operations of the WorkflowList
    batches,         \* goroutines of executeBatchCancel/executeBatchTerminate
    batchItems,      \* the items showBatch...Confirm built last, by position
    batchesMade,     \* batch goroutines started so far (numbers them)
    batchLog,        \* per batch confirmed: the statuses its modal shows;
                     \* history: whether its refresh ran, the statuses then
    \* --- the theme registry (package ui) and tview.Styles
    activeTheme,     \* activeTheme: the name of the palette, or "nil"
    styles,          \* tview.Styles: background and text colour
    thPc,            \* the event loop inside the theme callback: "idle", "load", "apply"
    thReq,           \* the name SetTheme was called with, and whether its file loads
    thResult,        \* what the last SetTheme returned: "none", "ok", "error"
    savedTheme,      \* the theme in the configuration file
    \* --- history (observation only)
    frame,           \* the colours read while drawing the last frame
    \* --- the visibility query of the WorkflowList and its search history
    searchHistory,   \* wl.searchHistory, oldest first
    historyIndex,    \* wl.historyIndex (-1: not browsing)
    visibilityQuery, \* wl.visibilityQuery (0 is the empty query)
    vqText,          \* the text in the visibility-query input
    vqPos,           \* history: Up minus Down presses since the input opened
                     \* (-1 once the text was typed over or the input closed)
    \* --- view.TaskQueueView
    tq,              \* the TaskQueueViews created so far, the newest last
    tqFetches,       \* goroutines of loadData inside ListWorkflows
    tqCalls,         \* goroutines of loadPollers inside DescribeTaskQueue
    statsTaskQueues, \* the task-queue count on the stats bar
    tqDescribes      \* loadPollers goroutines started so far

connVars == <<serverUp, client, connected, stopMonitor, uiRunning, reconnecting,
              backoff, monPc, monCl, monErr, sleeping, dialing, uiQueue, statsConnected,
              qPc, qCl, qOut, streak, probeFresh>>

listVars == <<stack, cbActive, statsWorkflows, menuHints, wl, fetches,
              issued, shownSeq, applied, inOrder>>

\* The supervisor's variables that no screen touches.
connOnly == <<serverUp, client, connected, stopMonitor, uiRunning,
              reconnecting, backoff, monPc, monCl, monErr, sleeping, dialing,
              statsConnected, qPc, qCl, qOut, streak, probeFresh>>

refreshVars == <<arOn, refreshTicker, liveTickers, tickersMade, arTasks, arPanic>>

\* The variables of the parts added after the list.
themeVars == <<activeTheme, styles, thPc, thReq, thResult, savedTheme, frame>>

histVars == <<searchHistory, historyIndex, visibilityQuery, vqText, vqPos>>

tqVars == <<tq, tqFetches, tqCalls, statsTaskQueues, tqDescribes>>

\* The parts after the theme registry.
afterTheme == <<histVars, tqVars>>

\* The parts after the batch operations.
afterBatch == <<themeVars, afterTheme>>

detailVars == <<wd, modal, calls, wdLoads, mutations>>

batchVars == <<batches, batchItems, batchesMade, batchLog>>

\* The parts after auto-refresh.
laterVars == <<detailVars, batchVars, afterBatch>>

extVars == <<refreshVars, laterVars>>

vars == <<connVars, listVars, extVars>>

\* ------------------------------------------------------------------ helpers
Min(a, b) == IF a < b THEN a ELSE b

RECURSIVE Pow2(_)
Pow2(n) == IF n = 0 THEN 1 ELSE 2 * Pow2(n - 1)

\* Reconnect goroutines that were spawned and have not returned.
InFlight == BagCardinality(sleeping) + dialing

\* A goroutine panicked: the process is gone.
Running == qOut # "panic"

\* QueueUpdateDraw: a send on the event loop's update channel.
CanPost == Len(uiQueue) < MaxQueue

\* A handle some goroutine still holds after Reconnect closed it.
CloseHeld(h) == IF h = "live" THEN "closed" ELSE h

\* The doubling in connectionMonitor, without its cap.
NextBackoffNoCap(b) == b * 2

\* backoff = backoff * 2; if backoff > reconnectMaxBackoff { backoff = max }
NextBackoff(b) ==
    IF b * 2 > reconnectMaxBackoff THEN reconnectMaxBackoff ELSE b * 2

\* ------------------------------------------------------------------- Init
ConnInit ==
    /\ serverUp = TRUE
    /\ client = "live"
    /\ connected = TRUE
    /\ stopMonitor = FALSE
    /\ uiRunning = TRUE
    /\ reconnecting = FALSE
    /\ backoff = reconnectInitialBackoff
    /\ monPc = "select"
    /\ monCl = "none"
    /\ monErr = FALSE
    /\ sleeping = EmptyBag
    /\ dialing = 0
    /\ uiQueue = <<>>
    /\ statsConnected = TRUE
    /\ qPc = "idle"
    /\ qCl = "none"
    /\ qOut = "none"
    /\ streak = 0
    /\ probeFresh = FALSE

\* ------------------------------------------------------------ environment
\* The server goes down or comes back.
ServerToggle ==
    /\ Running
    /\ serverUp' = ~serverUp
    /\ UNCHANGED <<client, connected, stopMonitor, uiRunning, reconnecting,
                   backoff, monPc, monCl, monErr, sleeping, dialing, uiQueue,
                   statsConnected, qPc, qCl, qOut, streak>>
    /\ UNCHANGED probeFresh
    /\ UNCHANGED listVars
    /\ UNCHANGED extVars

\* ------------------------------------------------- connectionMonitor loop
\* case <-ticker.C: CheckConnection reads c.client under RLock; a nil client
\* sets connected = false and returns an error at once.
MonitorTick ==
    /\ Running
    /\ monPc = "select"
    /\ IF client = "nil"
         THEN /\ connected' = FALSE
              /\ monErr' = TRUE
              /\ monCl' = "none"
              /\ monPc' = "handle"
         ELSE /\ monCl' = "live"
              /\ monPc' = "rpc"
              /\ UNCHANGED <<connected, monErr>>
    /\ UNCHANGED <<serverUp, client, stopMonitor, uiRunning, reconnecting,
                   backoff, sleeping, dialing, uiQueue, statsConnected, qPc, qCl, qOut,
                   streak>>
    /\ probeFresh' = TRUE
    /\ UNCHANGED listVars
    /\ UNCHANGED extVars

\* case <-a.stopMonitor: return
MonitorExit ==
    /\ Running
    /\ monPc = "select"
    /\ stopMonitor
    /\ monPc' = "done"
    /\ UNCHANGED <<serverUp, client, connected, stopMonitor, uiRunning,
                   reconnecting, backoff, monCl, monErr, sleeping, dialing, uiQueue,
                   statsConnected, qPc, qCl, qOut, streak>>
    /\ UNCHANGED probeFresh
    /\ UNCHANGED listVars
    /\ UNCHANGED extVars

\* CheckConnection: the ListNamespaces(PageSize: 1) probe on the local handle.
MonitorRpc ==
    /\ Running
    /\ monPc = "rpc"
    /\ monErr' = ~(serverUp /\ monCl = "live")
    /\ monPc' = "setconn"
    /\ UNCHANGED <<serverUp, client, connected, stopMonitor, uiRunning,
                   reconnecting, backoff, monCl, sleeping, dialing, uiQueue,
                   statsConnected, qPc, qCl, qOut, streak>>
    /\ UNCHANGED probeFresh
    /\ UNCHANGED listVars
    /\ UNCHANGED extVars

\* CheckConnection: c.connected = (err == nil) under Lock, then return.
MonitorSetConn ==
    /\ Running
    /\ monPc = "setconn"
    /\ connected' = ~monErr
    /\ monCl' = "none"
    /\ monPc' = "handle"
    /\ UNCHANGED <<serverUp, client, stopMonitor, uiRunning, reconnecting,
                   backoff, monErr, sleeping, dialing, uiQueue, statsConnected, qPc, qCl,
                   qOut, streak>>
    /\ UNCHANGED probeFresh
    /\ UNCHANGED listVars
    /\ UNCHANGED extVars

\* if err != nil { post SetConnected(false); spawn unless reconnecting }
MonitorProbeFailed ==
    /\ Running
    /\ monPc = "handle"
    /\ monErr
    /\ CanPost
    /\ uiQueue' = Append(uiQueue, [kind |-> "setConnected", ok |-> FALSE])
    /\ IF ~reconnecting
         THEN /\ InFlight < MaxTasks
              /\ sleeping' = sleeping (+) SetToBag({backoff})
              /\ reconnecting' = TRUE
              /\ backoff' = NextBackoff(backoff)
              /\ streak' = streak + 1
         ELSE UNCHANGED <<sleeping, reconnecting, backoff, streak>>
    /\ monErr' = FALSE
    /\ monPc' = "select"
    /\ UNCHANGED <<serverUp, client, connected, stopMonitor, uiRunning, monCl,
                   dialing, statsConnected, qPc, qCl, qOut>>
    /\ probeFresh' = FALSE
    /\ UNCHANGED listVars
    /\ UNCHANGED extVars

\* else { backoff = initial; a.reconnecting = false; post SetConnected(true) }
MonitorProbeOk ==
    /\ Running
    /\ monPc = "handle"
    /\ ~monErr
    /\ CanPost
    /\ backoff' = reconnectInitialBackoff
    /\ reconnecting' = FALSE
    /\ uiQueue' = Append(uiQueue, [kind |-> "setConnected", ok |-> TRUE])
    /\ streak' = 0
    /\ monPc' = "select"
    /\ UNCHANGED <<serverUp, client, connected, stopMonitor, uiRunning, monCl,
                   monErr, sleeping, dialing, statsConnected, qPc, qCl, qOut>>
    /\ probeFresh' = FALSE
    /\ UNCHANGED listVars
    /\ UNCHANGED extVars

\* ------------------------------------------------------- attemptReconnect
\* select { case <-a.stopMonitor: return }
TaskStopped(b) ==
    /\ Running
    /\ BagIn(b, sleeping)
    /\ stopMonitor
    /\ sleeping' = sleeping (-) SetToBag({b})
    /\ UNCHANGED <<serverUp, client, connected, stopMonitor, uiRunning,
                   reconnecting, backoff, monPc, monCl, monErr, dialing, uiQueue,
                   statsConnected, qPc, qCl, qOut, streak>>
    /\ UNCHANGED probeFresh
    /\ UNCHANGED listVars
    /\ UNCHANGED extVars

\* case <-time.After(backoff): then Reconnect's first critical section:
\* close the existing client, c.client = nil, c.connected = false.
TaskWake(b) ==
    /\ Running
    /\ BagIn(b, sleeping)
    /\ sleeping' = sleeping (-) SetToBag({b})
    /\ dialing' = dialing + 1
    /\ client' = "nil"
    /\ connected' = FALSE
    /\ monCl' = IF client = "live" THEN CloseHeld(monCl) ELSE monCl
    /\ qCl' = IF client = "live" THEN CloseHeld(qCl) ELSE qCl
    /\ UNCHANGED <<serverUp, stopMonitor, uiRunning, reconnecting, backoff,
                   monPc, monErr, uiQueue, statsConnected, qPc, qOut, streak>>
    /\ UNCHANGED probeFresh
    /\ UNCHANGED listVars
    /\ UNCHANGED extVars

\* client.DialContext, Reconnect's second critical section on success, and
\* the QueueUpdateDraw of the result closure; the goroutine then returns.
TaskDial ==
    /\ Running
    /\ dialing > 0
    /\ CanPost
    /\ IF serverUp
         THEN /\ client' = "live"
              /\ connected' = TRUE
              /\ streak' = 0
         ELSE UNCHANGED <<client, connected, streak>>
    /\ uiQueue' = Append(uiQueue, [kind |-> "reconnected", ok |-> serverUp])
    /\ dialing' = dialing - 1
    /\ UNCHANGED <<serverUp, stopMonitor, uiRunning, reconnecting, backoff,
                   monPc, monCl, monErr, sleeping, statsConnected, qPc, qCl,
                   qOut>>
    /\ probeFresh' = IF serverUp THEN FALSE ELSE probeFresh
    /\ UNCHANGED listVars
    /\ UNCHANGED extVars

\* ---------------------------------------------------------------- UI thread
\* The closure attemptReconnect posts: only a success touches any state.
ReconnectClosure(ok) ==
    IF ok
      THEN /\ statsConnected' = TRUE
           /\ reconnecting' = FALSE
      ELSE UNCHANGED <<statsConnected, reconnecting>>

\* The event loop runs the oldest queued closure.
UIRunConn ==
    /\ Running
    /\ uiRunning
    /\ uiQueue # <<>>
    /\ LET c == Head(uiQueue) IN
         /\ c.kind \in {"setConnected", "reconnected"}
         /\ IF c.kind = "setConnected"
              THEN /\ statsConnected' = c.ok
                   /\ UNCHANGED reconnecting
              ELSE ReconnectClosure(c.ok)
    /\ uiQueue' = Tail(uiQueue)
    /\ UNCHANGED <<serverUp, client, connected, stopMonitor, uiRunning,
                   backoff, monPc, monCl, monErr, sleeping, dialing, qPc, qCl, qOut,
                   streak>>
    /\ UNCHANGED probeFresh
    /\ UNCHANGED listVars
    /\ UNCHANGED extVars

\* The global key handler acts on q when at most the root is on the stack.
QuitAnywhere(st) == TRUE

QuitAtRoot(st) == Len(st) <= 1

\* q in the global key handler, which is skipped while the command bar is
\* active or the theme selector is in front: App.Stop, which is
\* close(stopMonitor) once, then ui.Stop().
AppStop ==
    /\ Running
    /\ uiRunning
    /\ ~cbActive
    /\ modal # "theme-selector"
    /\ QuitAtRoot(stack)
    /\ stopMonitor' = TRUE
    /\ uiRunning' = FALSE
    /\ UNCHANGED <<serverUp, client, connected, reconnecting, backoff, monPc,
                   monCl, monErr, sleeping, dialing, uiQueue, statsConnected, qPc, qCl,
                   qOut, streak>>
    /\ UNCHANGED probeFresh
    /\ UNCHANGED listVars
    /\ UNCHANGED extVars

\* ------------------------------------------------- Client.ListNamespaces
\* c.client is read without the mutex; calling WorkflowService() on a nil
\* client is a nil dereference.
QueryStart ==
    /\ Running
    /\ qPc = "idle"
    /\ IF client = "nil"
         THEN /\ qOut' = "panic"
              /\ UNCHANGED <<qPc, qCl>>
         ELSE /\ qCl' = "live"
              /\ qPc' = "rpc"
              /\ UNCHANGED qOut
    /\ UNCHANGED <<serverUp, client, connected, stopMonitor, uiRunning,
                   reconnecting, backoff, monPc, monCl, monErr, sleeping, dialing,
                   uiQueue, statsConnected, streak>>
    /\ UNCHANGED probeFresh
    /\ UNCHANGED listVars
    /\ UNCHANGED extVars

\* The RPC returns namespaces, or an error that ListNamespaces wraps.
QueryRpc ==
    /\ Running
    /\ qPc = "rpc"
    /\ qOut' = IF serverUp /\ qCl = "live" THEN "result" ELSE "error"
    /\ qCl' = "none"
    /\ qPc' = "idle"
    /\ UNCHANGED <<serverUp, client, connected, stopMonitor, uiRunning,
                   reconnecting, backoff, monPc, monCl, monErr, sleeping, dialing,
                   uiQueue, statsConnected, streak>>
    /\ UNCHANGED probeFresh
    /\ UNCHANGED listVars
    /\ UNCHANGED extVars

\* ====================================================================
\* Part 2 (SpecList): the workflow list screen, its fetches and the shell
\* ====================================================================

\* --------------------------------------------------------------- strings
\* A Go string is a sequence of one-character strings.
UpperChars == <<"A", "B", "C", "D", "E", "F", "G", "H", "I", "J", "K", "L", "M",
                "N", "O", "P", "Q", "R", "S", "T", "U", "V", "W", "X", "Y", "Z">>
LowerChars == <<"a", "b", "c", "d", "e", "f", "g", "h", "i", "j", "k", "l", "m",
                "n", "o", "p", "q", "r", "s", "t", "u", "v", "w", "x", "y", "z">>

LowerChar(c) ==
    IF \E i \in 1..Len(UpperChars) : UpperChars[i] = c
      THEN LowerChars[CHOOSE i \in 1..Len(UpperChars) : UpperChars[i] = c]
      ELSE c

\* strings.ToLower
ToLower(s) == [i \in 1..Len(s) |-> LowerChar(s[i])]

\* strings.Contains
Contains(s, sub) ==
    \E i \in 0..(Len(s) - Len(sub)) : SubSeq(s, i + 1, i + Len(sub)) = sub

\* truncate(s, maxLen)
Truncate(s, maxLen) ==
    IF Len(s) <= maxLen THEN s
    ELSE SubSeq(s, 1, maxLen - 3) \o <<".", ".", ".">>

\* ------------------------------------------------------------------ data
StRunning == <<"R", "u", "n", "n", "i", "n", "g">>
StCompleted == <<"C", "o", "m", "p", "l", "e", "t", "e", "d">>
StFailed == <<"F", "a", "i", "l", "e", "d">>

wfOrder1 == [id |-> <<"o", "1">>, runID |-> "run-1", type |-> <<"O", "w">>,
             status |-> StCompleted]
wfPayment1 == [id |-> <<"p", "1">>, runID |-> "run-2", type |-> <<"P", "w">>,
               status |-> StRunning]
wfPayment2 == [id |-> <<"p", "2">>, runID |-> "run-3", type |-> <<"P", "w">>,
               status |-> StFailed]

\* The zero value of a workflow: an empty ID and an empty RunID.
NoWorkflow == [id |-> <<>>, runID |-> "", type |-> <<>>, status |-> <<>>]

\* What the server may hold when ListWorkflows asks.
DataA == <<wfPayment1, wfOrder1>>
DataB == <<wfPayment2>>
Datasets == {<<>>, DataA, DataB}

\* Characters the operator types into the filter.
FilterChars == {"O"}

\* ------------------------------------------------------ ui.Table, StatsBar
ErrorRow == [kind |-> "error"]

\* One AddStyledRow call of populateTable.
RowOf(w) == [kind |-> "data", id |-> Truncate(w.id, 25),
             type |-> Truncate(w.type, 15), status |-> w.status]

RowsOf(ws) == [i \in 1..Len(ws) |-> RowOf(ws[i])]

CountStatus(ws, st) == Cardinality({i \in 1..Len(ws) : ws[i].status = st})

\* The three counters updateStats hands to SetWorkflowStats.
StatsOf(ws) == <<CountStatus(ws, StRunning), CountStatus(ws, StCompleted),
                 CountStatus(ws, StFailed)>>

\* ------------------------------------------------------------- ui.Pages
PagesPush(st, name) == Append(st, name)
PagesCanPop(st) == Len(st) > 1
\* Pages.Pop that also removes the root.
PagesPopAny(st) == IF Len(st) > 0 THEN SubSeq(st, 1, Len(st) - 1) ELSE st
PagesPop(st) == IF Len(st) > 1 THEN SubSeq(st, 1, Len(st) - 1) ELSE st
\* Pages.Pop with a modal page in front: the modal is what closes.
PagesPopModal(m) == "none"
Top(st) == st[Len(st)]

\* -------------------------------------------------------- WorkflowList
\* No WorkflowList is on the stack.  markedAs is history, never read by the
\* list: for each marked row, the workflow its row showed when the operator
\* marked it.
NoList == [allWorkflows |-> <<>>, workflows |-> <<>>, filterText |-> <<>>,
           rows |-> <<>>, leftContent |-> "table", selRow |-> -1,
           selectedRows |-> {}, selectionMode |-> FALSE, loading |-> FALSE,
           markedAs |-> {}]

\* NewWorkflowList: tview's selection starts on the header, so SelectedRow()
\* is -1; the left panel shows the table.
NewWorkflowList == NoList

\* Table.ClearRows: removes every row but the header.
ClearRows(l) == [l EXCEPT !.rows = <<>>]

\* populateTable that always puts the cursor on the first row.
PopulateTableSelectFirst(l) ==
    LET c == ClearRows(l)
    IN IF Len(c.workflows) = 0
         THEN [c EXCEPT !.leftContent =
                 IF Len(c.allWorkflows) = 0 THEN "empty" ELSE "noresults"]
         ELSE [c EXCEPT !.leftContent = "table",
                        !.rows = RowsOf(c.workflows),
                        !.selRow = 0]

\* populateTable
PopulateTable(l) ==
    LET currentRow == l.selRow
        c == ClearRows(l)
    IN IF Len(c.workflows) = 0
         THEN [c EXCEPT !.leftContent =
                 IF Len(c.allWorkflows) = 0 THEN "empty" ELSE "noresults"]
         ELSE [c EXCEPT !.leftContent = "table",
                        !.rows = RowsOf(c.workflows),
                        !.selRow = IF currentRow >= 0 /\ currentRow < Len(c.workflows)
                                     THEN currentRow ELSE 0]

\* The filter loop of applyFilter.
FilterWorkflows(all, text) ==
    IF text = <<>> THEN all
    ELSE LET filter == ToLower(text)
             Matches(w) == \/ Contains(ToLower(w.id), filter)
                           \/ Contains(ToLower(w.type), filter)
                           \/ Contains(ToLower(w.status), filter)
         IN SelectSeq(all, Matches)

\* applyFilter, without its updateStats call.
ApplyFilter(l) ==
    PopulateTable([l EXCEPT !.workflows = FilterWorkflows(l.allWorkflows, l.filterText)])

\* showError
ShowError(l) == [ClearRows(l) EXCEPT !.rows = <<ErrorRow>>]

\* The closure of loadData that keeps what the list already holds when it
\* already holds something.
LoadedClosureKeepFirst(l, c) ==
    IF ~c.ok THEN ShowError([l EXCEPT !.loading = FALSE])
    ELSE IF l.allWorkflows # <<>>
      THEN ApplyFilter([l EXCEPT !.loading = FALSE])
      ELSE ApplyFilter([l EXCEPT !.loading = FALSE, !.allWorkflows = c.data])

\* The closure loadData posts, run on a list that is on the stack.
LoadedClosure(l, c) ==
    IF ~c.ok THEN ShowError([l EXCEPT !.loading = FALSE])
    ELSE ApplyFilter([l EXCEPT !.loading = FALSE, !.allWorkflows = c.data])

\* Hints()
WlHints(l) == [screen |-> "workflows", mode |-> l.selectionMode,
               marked |-> l.selectionMode /\ l.selectedRows # {}]
NsHints == [screen |-> "namespaces", mode |-> FALSE, marked |-> FALSE]

\* The list is on top and its table has the keyboard.
ListFocused == Top(stack) = "workflows" /\ ~cbActive /\ modal = "none"

\* Fetches and closures of the list that is on the stack.
AttachedFetches == {f \in fetches : ~f.det}
AttachedQueued == {i \in 1..Len(uiQueue) :
                     uiQueue[i].kind = "wlLoaded" /\ ~uiQueue[i].det}

ListInit ==
    /\ stack = <<"namespaces">>
    /\ cbActive = FALSE
    /\ statsWorkflows = <<0, 0, 0>>
    /\ menuHints = NsHints
    /\ wl = NoList
    /\ fetches = {}
    /\ issued = 0
    /\ shownSeq = 0
    /\ applied = 0
    /\ inOrder = TRUE

\* loadData: setLoading(true) and the goroutine it starts.
LoadData ==
    /\ issued < MaxFetches
    /\ issued' = issued + 1
    /\ fetches' = fetches \cup {[seq |-> issued + 1, det |-> FALSE, filt |-> <<>>]}

\* loadData called by a closure of a list that was popped with filter filt.
LoadDataDetached(filt) ==
    /\ issued < MaxFetches
    /\ issued' = issued + 1
    /\ fetches' = fetches \cup {[seq |-> issued + 1, det |-> TRUE, filt |-> filt]}

\* ------------------------------------------------------------ auto-refresh
\* Goroutines of the list on the stack that block in their select.
Waiting(ts) == {k \in ts : k.pc = "wait" /\ ~k.det}

\* The send on stopRefresh that waits for a receiver.
AfterSignalBlocking(ts) == {ts \ {k} : k \in Waiting(ts)}

\* select { case wl.stopRefresh <- struct{}{}: default: } on the unbuffered
\* channel: a goroutine blocked in its select receives and returns; when
\* none is, the signal is dropped.  The possible sets of goroutines after.
AfterSignal(ts) ==
    IF Waiting(ts) = {} THEN {ts} ELSE {ts \ {k} : k \in Waiting(ts)}

\* The goroutines of a list stay behind when the list is popped.
DetachTasks(ts, filt) ==
    {[k EXCEPT !.det = TRUE, !.filt = IF k.det THEN k.filt ELSE filt] : k \in ts}

\* stopAutoRefresh, up to the signal.
StopTicker ==
    /\ liveTickers' = liveTickers \ {refreshTicker}
    /\ refreshTicker' = 0

\* a: toggleAutoRefresh, with startAutoRefresh or stopAutoRefresh.
KeyAutoRefresh ==
    /\ uiRunning
    /\ ~arPanic
    /\ ListFocused
    /\ arOn' = ~arOn
    /\ IF ~arOn
         THEN /\ tickersMade < MaxTickers
              /\ tickersMade' = tickersMade + 1
              /\ refreshTicker' = tickersMade + 1
              /\ liveTickers' = liveTickers \cup {tickersMade + 1}
              /\ arTasks' = arTasks \cup
                   {[id |-> tickersMade + 1, pc |-> "enter", t |-> 0,
                     det |-> FALSE, filt |-> <<>>]}
         ELSE /\ StopTicker
              /\ arTasks' \in AfterSignal(arTasks)
              /\ UNCHANGED tickersMade
    /\ UNCHANGED arPanic
    /\ UNCHANGED <<connVars, listVars>>
    /\ UNCHANGED laterVars

\* The goroutine of startAutoRefresh enters its select and evaluates
\* wl.refreshTicker.C: a nil ticker is a nil dereference.  The goroutine of
\* a popped list reads the field stopAutoRefresh set to nil.
ArEnter(k) ==
    /\ ~arPanic
    /\ k \in arTasks
    /\ k.pc = "enter"
    /\ LET tk == IF k.det THEN 0 ELSE refreshTicker IN
         IF tk = 0
           THEN /\ arPanic' = TRUE
                /\ arTasks' = arTasks \ {k}
           ELSE /\ arTasks' = (arTasks \ {k}) \cup {[k EXCEPT !.pc = "wait", !.t = tk]}
                /\ UNCHANGED arPanic
    /\ UNCHANGED <<arOn, refreshTicker, liveTickers, tickersMade>>
    /\ UNCHANGED <<connVars, listVars>>
    /\ UNCHANGED laterVars

\* case <-wl.refreshTicker.C: the ticker the goroutine selects on fires.
ArTick(k) ==
    /\ ~arPanic
    /\ k \in arTasks
    /\ k.pc = "wait"
    /\ k.t \in liveTickers
    /\ arTasks' = (arTasks \ {k}) \cup {[k EXCEPT !.pc = "fire"]}
    /\ UNCHANGED <<arOn, refreshTicker, liveTickers, tickersMade, arPanic>>
    /\ UNCHANGED <<connVars, listVars>>
    /\ UNCHANGED laterVars

\* QueueUpdateDraw(func() { wl.loadData() }), then back to the select.
ArPost(k) ==
    /\ ~arPanic
    /\ k \in arTasks
    /\ k.pc = "fire"
    /\ CanPost
    /\ uiQueue' = Append(uiQueue,
          [kind |-> "autoRefresh", det |-> k.det, filt |-> k.filt])
    /\ arTasks' = (arTasks \ {k}) \cup {[k EXCEPT !.pc = "enter"]}
    /\ UNCHANGED <<arOn, refreshTicker, liveTickers, tickersMade, arPanic>>
    /\ UNCHANGED connOnly
    /\ UNCHANGED listVars
    /\ UNCHANGED laterVars

\* The event loop runs the closure an auto-refresh goroutine posted:
\* loadData, on the list on the stack or on the list that was popped.
UIRunRefresh ==
    /\ uiRunning
    /\ ~arPanic
    /\ uiQueue # <<>>
    /\ Head(uiQueue).kind = "autoRefresh"
    /\ IF Head(uiQueue).det
         THEN /\ LoadDataDetached(Head(uiQueue).filt)
              /\ UNCHANGED wl
         ELSE /\ LoadData
              /\ wl' = [wl EXCEPT !.loading = TRUE]
    /\ uiQueue' = Tail(uiQueue)
    /\ UNCHANGED <<stack, cbActive, statsWorkflows, menuHints,
                   shownSeq, applied, inOrder>>
    /\ UNCHANGED connOnly
    /\ UNCHANGED refreshVars
    /\ UNCHANGED laterVars

\* Enter on the namespace list: NavigateToWorkflows, Pages.Push, Start.
PushWorkflows ==
    /\ uiRunning
    /\ stack = <<"namespaces">>
    /\ ~cbActive
    /\ stack' = PagesPush(stack, "workflows")
    /\ LoadData
    /\ wl' = [NewWorkflowList EXCEPT !.loading = TRUE]
    /\ menuHints' = WlHints(NewWorkflowList)
    /\ shownSeq' = 0
    /\ applied' = 0
    /\ inOrder' = TRUE
    /\ ~arPanic
    /\ arOn' = FALSE
    /\ UNCHANGED <<refreshTicker, liveTickers, tickersMade, arTasks, arPanic>>
    /\ UNCHANGED <<cbActive, statsWorkflows>>
    /\ UNCHANGED connVars
    /\ searchHistory' = <<>>
    /\ historyIndex' = -1
    /\ visibilityQuery' = NoQuery
    /\ vqText' = NoQuery
    /\ vqPos' = -1
    /\ UNCHANGED <<detailVars, batchVars, themeVars, tqVars>>

\* Pages.Pop with the list on top, and the list's Stop, which calls
\* stopAutoRefresh; q is the update queue at that moment.  The popped list
\* lives on in the closures and goroutines that still refer to it.
PopList(q) ==
    /\ stack' = PagesPop(stack)
    /\ fetches' = {[f EXCEPT !.det = TRUE,
                             !.filt = IF f.det THEN f.filt ELSE wl.filterText]
                   : f \in fetches}
    /\ uiQueue' = [i \in 1..Len(q) |->
                     IF q[i].kind = "wlLoaded" /\ ~q[i].det
                       THEN [q[i] EXCEPT !.det = TRUE, !.seq = 0,
                                         !.filt = wl.filterText]
                     ELSE IF q[i].kind = "autoRefresh" /\ ~q[i].det
                       THEN [q[i] EXCEPT !.det = TRUE, !.filt = wl.filterText]
                       ELSE q[i]]
    /\ wl' = NoList
    /\ menuHints' = NsHints
    /\ shownSeq' = 0
    /\ applied' = 0
    /\ inOrder' = TRUE
    /\ ~arPanic
    /\ StopTicker
    /\ \E ts \in AfterSignal(arTasks) : arTasks' = DetachTasks(ts, wl.filterText)
    /\ UNCHANGED <<arOn, tickersMade, arPanic>>
    /\ UNCHANGED <<cbActive, statsWorkflows, issued>>

\* Esc or Backspace in the global key handler on the list.
PopScreen ==
    /\ uiRunning
    /\ ~cbActive
    /\ modal = "none"
    /\ Top(stack) = "workflows"
    /\ PagesCanPop(stack)
    /\ PopList(uiQueue)
    /\ UNCHANGED connOnly
    /\ UNCHANGED laterVars

\* r: loadData
KeyRefresh ==
    /\ uiRunning
    /\ ListFocused
    /\ LoadData
    /\ wl' = [wl EXCEPT !.loading = TRUE]
    /\ UNCHANGED <<stack, cbActive, statsWorkflows, menuHints,
                   shownSeq, applied, inOrder>>
    /\ UNCHANGED connVars
    /\ UNCHANGED extVars

\* ----------------------------------------------------------- search history
\* h without the first occurrence of query.
RECURSIVE RemoveFirst(_, _)
RemoveFirst(h, query) ==
    IF h = <<>> THEN <<>>
    ELSE IF Head(h) = query THEN Tail(h)
    ELSE <<Head(h)>> \o RemoveFirst(Tail(h), query)

\* addToHistory that never drops the oldest entry.
AddToHistoryNoTrim(h, query) ==
    IF query = NoQuery THEN h
    ELSE IF Len(h) > 0 /\ h[Len(h)] = query THEN h
    ELSE Append(RemoveFirst(h, query), query)

\* addToHistory that appends without looking for an older occurrence.
AddToHistoryKeepOld(h, query) ==
    IF query = NoQuery THEN h
    ELSE IF Len(h) > 0 /\ h[Len(h)] = query THEN h
    ELSE LET added == Append(h, query)
         IN IF Len(added) > maxHistorySize THEN Tail(added) ELSE added

\* addToHistory: wl.searchHistory after the call.
AddToHistory(h, query) ==
    IF query = NoQuery THEN h
    ELSE IF Len(h) > 0 /\ h[Len(h)] = query THEN h
    ELSE LET added == Append(RemoveFirst(h, query), query)
         IN IF Len(added) > maxHistorySize THEN Tail(added) ELSE added

\* addToHistory: wl.historyIndex after the call; the two early returns
\* leave it alone.
AddToHistoryIndex(h, query, idx) ==
    IF query = NoQuery THEN idx
    ELSE IF Len(h) > 0 /\ h[Len(h)] = query THEN idx
    ELSE -1

\* historyPrevious: the new wl.historyIndex and the text returned.
HistoryPrevious(h, idx, vq) ==
    IF Len(h) = 0 THEN [idx |-> idx, text |-> vq]
    ELSE LET i == IF idx = -1 THEN Len(h) - 1
                  ELSE IF idx > 0 THEN idx - 1 ELSE idx
         IN [idx |-> i, text |-> h[i + 1]]

\* historyNext: the new wl.historyIndex and the text returned.
HistoryNext(h, idx, vq) ==
    IF Len(h) = 0 \/ idx = -1 THEN [idx |-> idx, text |-> vq]
    ELSE IF idx < Len(h) - 1 THEN [idx |-> idx + 1, text |-> h[idx + 2]]
    ELSE [idx |-> -1, text |-> NoQuery]

\* The onSubmit of showVisibilityQuery after closeVisibilityQuery: the query
\* is stored and added to the history, the substring filter is cleared and
\* the list reloads.  The visible workflows are not filtered again until
\* the reload is applied.
OnSubmit(text) ==
    /\ LoadData
    /\ wl' = [wl EXCEPT !.filterText = <<>>, !.loading = TRUE]
    /\ visibilityQuery' = text
    /\ searchHistory' = AddToHistory(searchHistory, text)
    /\ historyIndex' = AddToHistoryIndex(searchHistory, text, historyIndex)

\* F, Enter: the visibility-query input opened and submitted with no text.
SubmitQuery ==
    /\ uiRunning
    /\ ListFocused
    /\ OnSubmit(NoQuery)
    /\ UNCHANGED <<vqText, vqPos>>
    /\ UNCHANGED <<stack, cbActive, statsWorkflows, menuHints,
                   shownSeq, applied, inOrder>>
    /\ UNCHANGED connVars
    /\ UNCHANGED <<refreshVars, detailVars, batchVars, themeVars, tqVars>>

\* The goroutine of loadData: ListWorkflows returns an error (ok false) or
\* the workflows the server holds at that moment, and the closure is posted.
FetchDone(f, ok, data) ==
    /\ f \in fetches
    /\ CanPost
    /\ ~ok => data = <<>>
    /\ fetches' = fetches \ {f}
    /\ uiQueue' = Append(uiQueue,
          [kind |-> "wlLoaded", seq |-> f.seq, ok |-> ok, data |-> data,
           det |-> f.det, filt |-> f.filt])
    /\ inOrder' = IF f.det THEN inOrder
                  ELSE inOrder /\ \A g \in AttachedFetches : f.seq <= g.seq
    /\ UNCHANGED <<stack, cbActive, statsWorkflows, menuHints, wl,
                   issued, shownSeq, applied>>
    /\ UNCHANGED connOnly
    /\ UNCHANGED extVars

\* The event loop runs the oldest closure: one posted by loadData.  On a
\* list that was popped it still runs, on the old list's fields, and still
\* ends in updateStats on the shared status bar.
UIRunList ==
    /\ uiRunning
    /\ uiQueue # <<>>
    /\ Head(uiQueue).kind = "wlLoaded"
    /\ LET c == Head(uiQueue) IN
         IF c.det
           THEN /\ statsWorkflows' =
                     IF c.ok THEN StatsOf(FilterWorkflows(c.data, c.filt))
                     ELSE statsWorkflows
                /\ UNCHANGED <<wl, shownSeq, applied>>
           ELSE /\ wl' = LoadedClosure(wl, c)
                /\ statsWorkflows' =
                     IF c.ok THEN StatsOf(LoadedClosure(wl, c).workflows)
                     ELSE statsWorkflows
                /\ shownSeq' = c.seq
                /\ applied' = applied + 1
    /\ uiQueue' = Tail(uiQueue)
    /\ UNCHANGED <<stack, cbActive, menuHints, fetches, issued, inOrder>>
    /\ UNCHANGED connOnly
    /\ UNCHANGED extVars

\* The filter text changed to text: filterText = text; applyFilter().
SetFilter(text) ==
    /\ wl' = ApplyFilter([wl EXCEPT !.filterText = text])
    /\ statsWorkflows' = StatsOf(ApplyFilter([wl EXCEPT !.filterText = text]).workflows)

\* /: showFilter.  ShowCommandBar activates the bar with empty text; an
\* existing filter is put back with SetText, which fires onChange.
KeySlash ==
    /\ uiRunning
    /\ ListFocused
    /\ cbActive' = TRUE
    /\ IF wl.filterText # <<>>
         THEN SetFilter(wl.filterText)
         ELSE UNCHANGED <<wl, statsWorkflows>>
    /\ UNCHANGED <<stack, menuHints, fetches, issued, shownSeq, applied,
                   inOrder>>
    /\ UNCHANGED connVars
    /\ UNCHANGED extVars

\* A character typed into the command bar: onChange(text).
CmdRune(ch) ==
    /\ uiRunning
    /\ cbActive
    /\ Len(wl.filterText) < MaxFilterLen
    /\ SetFilter(Append(wl.filterText, ch))
    /\ UNCHANGED <<stack, cbActive, menuHints, fetches, issued,
                   shownSeq, applied, inOrder>>
    /\ UNCHANGED connVars
    /\ UNCHANGED extVars

\* Backspace in the command bar with the cursor behind a character.
CmdBackspace ==
    /\ uiRunning
    /\ cbActive
    /\ Len(wl.filterText) > 0
    /\ SetFilter(SubSeq(wl.filterText, 1, Len(wl.filterText) - 1))
    /\ UNCHANGED <<stack, cbActive, menuHints, fetches, issued,
                   shownSeq, applied, inOrder>>
    /\ UNCHANGED connVars
    /\ UNCHANGED extVars

\* Enter in the command bar: onSubmit(text), then onCancel closes the bar.
CmdEnter ==
    /\ uiRunning
    /\ cbActive
    /\ SetFilter(wl.filterText)
    /\ cbActive' = FALSE
    /\ UNCHANGED <<stack, menuHints, fetches, issued, shownSeq, applied,
                   inOrder>>
    /\ UNCHANGED connVars
    /\ UNCHANGED extVars

\* Esc in the command bar: onCancel closes the bar, the filter stays.
CmdEscape ==
    /\ uiRunning
    /\ cbActive
    /\ cbActive' = FALSE
    /\ UNCHANGED <<stack, statsWorkflows, menuHints, wl, fetches,
                   issued, shownSeq, applied, inOrder>>
    /\ UNCHANGED connVars
    /\ UNCHANGED extVars

\* v: toggleSelectionMode.  Leaving the mode clears the marks.
KeySelectMode ==
    /\ uiRunning
    /\ ListFocused
    /\ LET l == IF wl.selectionMode
                  THEN [wl EXCEPT !.selectionMode = FALSE, !.selectedRows = {},
                                  !.markedAs = {}]
                  ELSE [wl EXCEPT !.selectionMode = TRUE]
       IN /\ wl' = l
          /\ menuHints' = WlHints(l)
    /\ UNCHANGED <<stack, cbActive, statsWorkflows, fetches, issued,
                   shownSeq, applied, inOrder>>
    /\ UNCHANGED connVars
    /\ UNCHANGED extVars

\* The workflow the table shows in a row: the row's workflow when the row
\* is a workflow's row, NoWorkflow when it is the error row or no row.
ShownAt(l, row) ==
    IF row + 1 \in 1..Len(l.rows) /\ l.rows[row + 1].kind = "data"
         /\ row + 1 <= Len(l.workflows)
      THEN [row |-> row, id |-> l.workflows[row + 1].id,
            runID |-> l.workflows[row + 1].runID]
      ELSE [row |-> row, id |-> NoWorkflow.id, runID |-> NoWorkflow.runID]

\* Table.ToggleRowSelection
ToggleRowSelection(l, row) ==
    IF ~l.selectionMode \/ row < 0 THEN l
    ELSE IF row \in l.selectedRows
      THEN [l EXCEPT !.selectedRows = @ \ {row},
                     !.markedAs = {m \in @ : m.row # row}]
      ELSE [l EXCEPT !.selectedRows = @ \cup {row},
                     !.markedAs = @ \cup {ShownAt(l, row)}]

\* Space in selection mode: ToggleSelection on the cursor row, then
\* updateSelectionPreview refreshes the hints.
KeySpace ==
    /\ uiRunning
    /\ ListFocused
    /\ wl.selectionMode
    /\ wl' = ToggleRowSelection(wl, wl.selRow)
    /\ menuHints' = WlHints(ToggleRowSelection(wl, wl.selRow))
    /\ UNCHANGED <<stack, cbActive, statsWorkflows, fetches, issued,
                   shownSeq, applied, inOrder>>
    /\ UNCHANGED connVars
    /\ UNCHANGED extVars

\* j, k or an arrow key: the table moves the cursor to a neighbouring row.
KeyMove(row) ==
    /\ uiRunning
    /\ ListFocused
    /\ row \in 0..(Len(wl.rows) - 1)
    /\ row # wl.selRow
    /\ row = wl.selRow + 1 \/ row = wl.selRow - 1
    /\ wl' = [wl EXCEPT !.selRow = row]
    /\ UNCHANGED <<stack, cbActive, statsWorkflows, menuHints,
                   fetches, issued, shownSeq, applied, inOrder>>
    /\ UNCHANGED connVars
    /\ UNCHANGED extVars

ListNext ==
    \/ PushWorkflows
    \/ PopScreen
    \/ KeyRefresh
    \/ SubmitQuery
    \/ \E f \in fetches : \E ok \in BOOLEAN : \E d \in Datasets : FetchDone(f, ok, d)
    \/ UIRunList
    \/ KeySlash
    \/ \E ch \in FilterChars : CmdRune(ch)
    \/ CmdBackspace
    \/ CmdEnter
    \/ CmdEscape
    \/ KeySelectMode
    \/ KeySpace
    \/ \E row \in 0..(Len(DataA) - 1) : KeyMove(row)

\* ----------------------------------------------------------- WorkflowDetail
\* No WorkflowDetail is on the stack.
\* runID numbers the runs of the workflow (0: none); workflow and events
\* are wd.workflow and wd.events, each as the run it was fetched for (0: nil).
NoDetail == [workflowView |-> "none", eventTable |-> "none", loading |-> FALSE,
             runID |-> 0, workflow |-> 0, events |-> 0]

\* NewWorkflowDetail: the workflow view and the event table start empty.
NewWorkflowDetail ==
    [workflowView |-> "blank", eventTable |-> "blank", loading |-> FALSE,
     runID |-> 1, workflow |-> 0, events |-> 0]

\* The names of the pages showCancelConfirm and showTerminateConfirm add.
ConfirmPages == {"confirm-cancel", "confirm-terminate"}

\* The Provider call behind each confirmation.
MutationOf(page) ==
    IF page = "confirm-cancel" THEN "CancelWorkflow" ELSE "TerminateWorkflow"

\* WorkflowDetail.showError: the error replaces the workflow view.
WdShowError(d) == [d EXCEPT !.workflowView = "error"]

\* The closure of loadData's first goroutine (GetWorkflow); run is the run
\* the goroutine asked for.
WorkflowClosure(d, ok, run) ==
    IF ~ok THEN WdShowError([d EXCEPT !.loading = FALSE])
    ELSE [d EXCEPT !.loading = FALSE, !.workflowView = "workflow",
                   !.workflow = run]

\* The closure of loadData's second goroutine (GetWorkflowHistory): an
\* error returns at once.
EventsClosure(d, ok, run) ==
    IF ~ok THEN d ELSE [d EXCEPT !.eventTable = "events", !.events = run]

\* Hints()
WdHints == [screen |-> "detail", mode |-> FALSE, marked |-> FALSE]

\* The detail is on top and its event table has the keyboard.
DetailFocused ==
    uiRunning /\ Top(stack) = "detail" /\ ~cbActive /\ modal = "none"

\* Pages.RemovePage(name) and the focus back on the current view.
CloseModal(m, name) == IF m = name THEN "none" ELSE m

\* WorkflowDetail.loadData: setLoading(true) and the two goroutines.
WdLoadData(det) ==
    /\ wdLoads < MaxLoads
    /\ wdLoads' = wdLoads + 1
    /\ calls' = calls \cup
         {[kind |-> "GetWorkflow", n |-> wdLoads + 1, det |-> det, page |-> "none",
           run |-> 0],
          [kind |-> "GetWorkflowHistory", n |-> wdLoads + 1, det |-> det,
           page |-> "none", run |-> 0]}

\* What the completion closure of a mutation does after closeModal: the
\* error on failure, loadData on success.
MutationOutcome(ok, det) ==
    IF ok
      THEN /\ WdLoadData(det)
           /\ wd' = IF det THEN wd ELSE [wd EXCEPT !.loading = TRUE]
      ELSE /\ wd' = IF det THEN wd ELSE WdShowError(wd)
           /\ UNCHANGED <<calls, wdLoads>>

\* Enter on a workflow row: NavigateToWorkflowDetail, Pages.Push, Start.
PushDetail ==
    /\ uiRunning
    /\ ListFocused
    /\ wl.leftContent = "table"
    /\ wl.selRow >= 0
    /\ wl.selRow < Len(wl.workflows)
    /\ stack' = PagesPush(stack, "detail")
    /\ WdLoadData(FALSE)
    /\ wd' = [NewWorkflowDetail EXCEPT !.loading = TRUE]
    /\ menuHints' = WdHints
    /\ UNCHANGED <<modal, mutations>>
    /\ UNCHANGED <<cbActive, statsWorkflows, wl, fetches, issued, shownSeq,
                   applied, inOrder>>
    /\ UNCHANGED <<connVars, refreshVars, batchVars>>
    /\ UNCHANGED afterBatch

\* r on the detail: loadData.
WdKeyRefresh ==
    /\ DetailFocused
    /\ WdLoadData(FALSE)
    /\ wd' = [wd EXCEPT !.loading = TRUE]
    /\ UNCHANGED <<modal, mutations>>
    /\ UNCHANGED <<connVars, listVars, refreshVars, batchVars>>
    /\ UNCHANGED afterBatch

\* c or X on the detail: showCancelConfirm, showTerminateConfirm.
ShowConfirm(page) ==
    /\ DetailFocused
    /\ page \in ConfirmPages
    /\ modal' = page
    /\ UNCHANGED <<wd, calls, wdLoads, mutations>>
    /\ UNCHANGED <<connVars, listVars, refreshVars, batchVars>>
    /\ UNCHANGED afterBatch

\* Enter in the confirmation modal: onConfirm, which is
\* executeCancelWorkflow or executeTerminateWorkflow.  The Provider exists
\* (NewAppWithProvider), so the goroutine is started.
ModalConfirm ==
    /\ uiRunning
    /\ ~cbActive
    /\ modal \in ConfirmPages
    /\ mutations < MaxMutations
    /\ mutations' = mutations + 1
    /\ calls' = calls \cup
         {[kind |-> MutationOf(modal), n |-> mutations + 1, det |-> FALSE,
           page |-> modal, run |-> 0]}
    /\ UNCHANGED <<wd, modal, wdLoads>>
    /\ UNCHANGED <<connVars, listVars, refreshVars, batchVars>>
    /\ UNCHANGED afterBatch

\* The run a goroutine of the detail passes to its Provider call: it reads
\* wd.runID when it builds the call, with no lock, at any moment between
\* its start (run = 0: not read yet) and the call.
RunRead(c) == IF c.run # 0 \/ c.det THEN c.run ELSE wd.runID

\* A goroutine of the detail has read wd.runID for its call.
CallArgs(c) ==
    /\ c \in calls
    /\ c.run = 0
    /\ ~c.det
    /\ calls' = (calls \ {c}) \cup {[c EXCEPT !.run = wd.runID]}
    /\ UNCHANGED <<wd, modal, wdLoads, mutations>>
    /\ UNCHANGED <<connVars, listVars, refreshVars, batchVars>>
    /\ UNCHANGED afterBatch

\* A goroutine of the detail: its Provider call returns, with or without
\* an error, and the closure is posted.
CallDone(c, ok) ==
    /\ c \in calls
    /\ CanPost
    /\ calls' = calls \ {c}
    /\ uiQueue' = Append(uiQueue,
          [kind |-> c.kind, ok |-> ok, det |-> c.det, page |-> c.page,
           run |-> RunRead(c)])
    /\ UNCHANGED <<wd, modal, wdLoads, mutations>>
    /\ UNCHANGED connOnly
    /\ UNCHANGED <<listVars, refreshVars, batchVars>>
    /\ UNCHANGED afterBatch

DetailKinds == {"GetWorkflow", "GetWorkflowHistory", "CancelWorkflow",
                "TerminateWorkflow"}

\* The event loop runs the oldest closure: one a goroutine of the detail
\* posted.  The closures of a detail that was popped run on its fields.
UIRunDetail ==
    /\ uiRunning
    /\ uiQueue # <<>>
    /\ Head(uiQueue).kind \in DetailKinds
    /\ LET c == Head(uiQueue) IN
         CASE c.kind = "GetWorkflow" ->
                /\ wd' = IF c.det THEN wd ELSE WorkflowClosure(wd, c.ok, c.run)
                /\ menuHints' = IF c.ok THEN WdHints ELSE menuHints
                /\ UNCHANGED <<modal, calls, wdLoads>>
           [] c.kind = "GetWorkflowHistory" ->
                /\ wd' = IF c.det THEN wd ELSE EventsClosure(wd, c.ok, c.run)
                /\ UNCHANGED <<menuHints, modal, calls, wdLoads>>
           [] OTHER ->
                /\ modal' = CloseModal(modal, c.page)
                /\ MutationOutcome(c.ok, c.det)
                /\ UNCHANGED menuHints
    /\ uiQueue' = Tail(uiQueue)
    /\ UNCHANGED mutations
    /\ UNCHANGED <<stack, cbActive, statsWorkflows, wl, fetches, issued,
                   shownSeq, applied, inOrder>>
    /\ UNCHANGED connOnly
    /\ UNCHANGED <<refreshVars, batchVars>>
    /\ UNCHANGED afterBatch

\* n on the namespace list: showCreateForm adds the namespace form and
\* gives it the focus.
ShowCreateForm ==
    /\ uiRunning
    /\ stack = <<"namespaces">>
    /\ ~cbActive
    /\ modal = "none"
    /\ modal' = "namespace-form"
    /\ UNCHANGED <<wd, calls, wdLoads, mutations>>
    /\ UNCHANGED <<connVars, listVars, refreshVars, batchVars>>
    /\ UNCHANGED afterBatch

\* Esc in the namespace form, which the global key handler passes on while
\* nothing can be popped: onCancel, closeModal("namespace-form").
NsFormCancel ==
    /\ uiRunning
    /\ ~cbActive
    /\ modal = "namespace-form"
    /\ ~PagesCanPop(stack)
    /\ modal' = "none"
    /\ UNCHANGED <<wd, calls, wdLoads, mutations>>
    /\ UNCHANGED <<connVars, listVars, refreshVars, batchVars>>
    /\ UNCHANGED afterBatch

\* Esc or Backspace in the global key handler while a modal is in front:
\* Pages.Pop closes the modal and leaves the screen under it.
EscModal ==
    /\ uiRunning
    /\ ~cbActive
    /\ modal # "none"
    /\ PagesCanPop(stack)
    /\ modal' = PagesPopModal(modal)
    /\ UNCHANGED <<wd, calls, wdLoads, mutations>>
    /\ UNCHANGED <<connVars, listVars, refreshVars, batchVars>>
    /\ UNCHANGED afterBatch

\* Pages.Pop with the detail on top, and the detail's Stop; q is the update
\* queue at that moment.  Its goroutines and closures stay behind.
PopWd(q) ==
    /\ stack' = PagesPop(stack)
    /\ wd' = NoDetail
    /\ calls' = {[c EXCEPT !.det = TRUE, !.run = 0] : c \in calls}
    /\ uiQueue' = [i \in 1..Len(q) |->
                     IF q[i].kind \in DetailKinds \cup {"DeleteWorkflow", "ResetWorkflow"}
                       THEN [q[i] EXCEPT !.det = TRUE, !.run = 0]
                       ELSE q[i]]
    /\ menuHints' = WlHints(wl)

\* Esc or Backspace in the global key handler on the detail.
PopDetail ==
    /\ DetailFocused
    /\ PagesCanPop(stack)
    /\ PopWd(uiQueue)
    /\ UNCHANGED <<modal, wdLoads, mutations>>
    /\ UNCHANGED <<cbActive, statsWorkflows, wl, fetches, issued, shownSeq,
                   applied, inOrder>>
    /\ UNCHANGED connOnly
    /\ UNCHANGED <<refreshVars, batchVars>>
    /\ UNCHANGED afterBatch

\* D on the detail: showDeleteConfirm.
ShowDeleteConfirm ==
    /\ DetailFocused
    /\ modal' = "confirm-delete"
    /\ UNCHANGED <<wd, calls, wdLoads, mutations>>
    /\ UNCHANGED <<connVars, listVars, refreshVars, batchVars>>
    /\ UNCHANGED afterBatch

\* Enter in the delete confirmation: executeDeleteWorkflow starts its
\* goroutine.
DeleteConfirm ==
    /\ uiRunning
    /\ ~cbActive
    /\ modal = "confirm-delete"
    /\ mutations < MaxMutations
    /\ mutations' = mutations + 1
    /\ calls' = calls \cup
         {[kind |-> "DeleteWorkflow", n |-> mutations + 1, det |-> FALSE,
           page |-> modal, run |-> 0]}
    /\ UNCHANGED <<wd, modal, wdLoads>>
    /\ UNCHANGED <<connVars, listVars, refreshVars, batchVars>>
    /\ UNCHANGED afterBatch

\* The event loop runs the closure of executeDeleteWorkflow: closeModal,
\* then showError, or Pages.Pop on whatever is in front by then: a modal
\* page, the detail, the list, or the root, where Pop does nothing.
UIRunDelete ==
    /\ uiRunning
    /\ uiQueue # <<>>
    /\ Head(uiQueue).kind = "DeleteWorkflow"
    /\ LET c == Head(uiQueue)
           q == Tail(uiQueue)
           m == CloseModal(modal, "confirm-delete")
       IN IF ~c.ok
            THEN /\ modal' = m
                 /\ wd' = IF c.det THEN wd ELSE WdShowError(wd)
                 /\ uiQueue' = q
                 /\ UNCHANGED <<calls, listVars, refreshVars>>
          ELSE IF m # "none"
            THEN /\ modal' = PagesPopModal(m)
                 /\ uiQueue' = q
                 /\ UNCHANGED <<wd, calls, listVars, refreshVars>>
          ELSE IF Top(stack) = "detail"
            THEN /\ modal' = m
                 /\ PopWd(q)
                 /\ UNCHANGED <<cbActive, statsWorkflows, wl, fetches, issued,
                                shownSeq, applied, inOrder>>
                 /\ UNCHANGED refreshVars
          ELSE IF Top(stack) = "workflows"
            THEN /\ modal' = m
                 /\ PopList(q)
                 /\ UNCHANGED <<wd, calls>>
          ELSE /\ modal' = m
               /\ stack' = PagesPop(stack)
               /\ uiQueue' = q
               /\ menuHints' = IF PagesCanPop(stack) THEN WlHints(wl) ELSE menuHints
               /\ UNCHANGED <<wd, calls, refreshVars>>
               /\ UNCHANGED <<cbActive, statsWorkflows, wl, fetches, issued,
                              shownSeq, applied, inOrder>>
    /\ UNCHANGED <<wdLoads, mutations>>
    /\ UNCHANGED connOnly
    /\ UNCHANGED batchVars
    /\ UNCHANGED afterBatch

\* A reset point chosen in the quick-reset modal or the reset picker:
\* showResetConfirm.
ShowResetConfirm ==
    /\ DetailFocused
    /\ modal' = "confirm-reset"
    /\ UNCHANGED <<wd, calls, wdLoads, mutations>>
    /\ UNCHANGED <<connVars, listVars, refreshVars, batchVars>>
    /\ UNCHANGED afterBatch

\* Enter in the reset confirmation: executeResetWorkflow starts its
\* goroutine.  run is the new run the server creates for this call.
ResetConfirm ==
    /\ uiRunning
    /\ ~cbActive
    /\ modal = "confirm-reset"
    /\ mutations < MaxMutations
    /\ mutations' = mutations + 1
    /\ calls' = calls \cup
         {[kind |-> "ResetWorkflow", n |-> mutations + 1, det |-> FALSE,
           page |-> modal, run |-> mutations + 2]}
    /\ UNCHANGED <<wd, modal, wdLoads>>
    /\ UNCHANGED <<connVars, listVars, refreshVars, batchVars>>
    /\ UNCHANGED afterBatch

\* What the closure of executeResetWorkflow does after closeModal: the
\* error on failure; on success wd.runID = newRunID and loadData.
ResetOutcome(ok, det, newRunID) ==
    IF ok
      THEN /\ WdLoadData(det)
           /\ wd' = IF det THEN wd
                    ELSE [wd EXCEPT !.runID = newRunID, !.loading = TRUE]
      ELSE /\ wd' = IF det THEN wd ELSE WdShowError(wd)
           /\ UNCHANGED <<calls, wdLoads>>

\* The event loop runs the closure of executeResetWorkflow.
UIRunReset ==
    /\ uiRunning
    /\ uiQueue # <<>>
    /\ Head(uiQueue).kind = "ResetWorkflow"
    /\ LET c == Head(uiQueue) IN
         /\ modal' = CloseModal(modal, "confirm-reset")
         /\ ResetOutcome(c.ok, c.det, c.run)
    /\ uiQueue' = Tail(uiQueue)
    /\ UNCHANGED mutations
    /\ UNCHANGED <<connOnly, listVars, refreshVars, batchVars>>
    /\ UNCHANGED afterBatch

\* --------------------------------------------------------- batch operations
\* Table.GetSelectedRows: the marked rows in ascending order.
RECURSIVE GetSelectedRows(_)
GetSelectedRows(rows) ==
    IF rows = {} THEN <<>>
    ELSE LET least == CHOOSE r \in rows : \A q \in rows : r <= q
         IN <<least>> \o GetSelectedRows(rows \ {least})

\* The closures a batch goroutine posts, the refresh of the list before the
\* per-item results.
BatchClosuresRefreshFirst(id, results) ==
    <<[kind |-> "batchRefresh", b |-> id]>> \o
    [i \in 1..Len(results) |->
       [kind |-> "batchItem", b |-> id, i |-> i, ok |-> results[i]]]

\* The closures the goroutine of executeBatchCancel/executeBatchTerminate
\* posts, in its order: one per result, then the refresh of the list.
BatchClosures(id, results) ==
    [i \in 1..Len(results) |->
       [kind |-> "batchItem", b |-> id, i |-> i, ok |-> results[i]]]
    \o <<[kind |-> "batchRefresh", b |-> id]>>

\* Provider.CancelWorkflows / TerminateWorkflows: one result per workflow,
\* each a success or an error of its own.
BatchResults(n) == [1..n -> BOOLEAN]

\* The zero value of ui.BatchItem.
ZeroItem == [ID |-> <<>>, RunID |-> "", Status |-> ""]

\* "Build batch items" of showBatchCancelConfirm/showBatchTerminateConfirm:
\* one item per marked row, filled from wl.workflows[idx] when idx is inside
\* wl.workflows and left at its zero value otherwise.
BuildItems(l) ==
    LET selected == GetSelectedRows(l.selectedRows)
    IN [i \in 1..Len(selected) |->
          IF selected[i] < Len(l.workflows)
            THEN [ID |-> l.workflows[selected[i] + 1].id,
                  RunID |-> l.workflows[selected[i] + 1].runID,
                  Status |-> "pending"]
            ELSE ZeroItem]

\* "Build workflow identifiers" of the batch goroutine.
BuildIdentifiers(items) ==
    [i \in 1..Len(items) |->
       [WorkflowID |-> items[i].ID, RunID |-> items[i].RunID]]

\* c or X in selection mode with marked rows: showBatchCancelConfirm,
\* showBatchTerminateConfirm build the items and add the modal.
ShowBatchConfirm ==
    /\ uiRunning
    /\ ListFocused
    /\ wl.selectionMode
    /\ wl.selectedRows # {}
    /\ modal' = "batch-confirm"
    /\ batchItems' = BuildItems(wl)
    /\ UNCHANGED <<batches, batchesMade, batchLog>>
    /\ UNCHANGED <<wd, calls, wdLoads, mutations>>
    /\ UNCHANGED <<connVars, listVars, refreshVars>>
    /\ UNCHANGED afterBatch

\* Enter in the batch modal: onConfirm, which is executeBatchCancel or
\* executeBatchTerminate: StartProgress and the goroutine.
BatchConfirm ==
    /\ uiRunning
    /\ ~cbActive
    /\ modal = "batch-confirm"
    /\ batchesMade < MaxBatches
    /\ batchesMade' = batchesMade + 1
    /\ batches' = batches \cup
         {[id |-> batchesMade + 1, pc |-> "call", n |-> Len(batchItems),
           workflows |-> BuildIdentifiers(batchItems), todo |-> <<>>]}
    /\ batchLog' = Append(batchLog,
         [items |-> [i \in 1..Len(batchItems) |-> batchItems[i].Status],
          refreshed |-> FALSE, atRefresh |-> <<>>])
    /\ UNCHANGED batchItems
    /\ UNCHANGED detailVars
    /\ UNCHANGED <<connVars, listVars, refreshVars>>
    /\ UNCHANGED afterBatch

\* The batched Provider call returns its results.
BatchCallDone(b, results) ==
    /\ b \in batches
    /\ b.pc = "call"
    /\ results \in BatchResults(b.n)
    /\ batches' = (batches \ {b}) \cup
         {[b EXCEPT !.pc = "post", !.todo = BatchClosures(b.id, results)]}
    /\ UNCHANGED <<batchItems, batchesMade, batchLog>>
    /\ UNCHANGED detailVars
    /\ UNCHANGED <<connVars, listVars, refreshVars>>
    /\ UNCHANGED afterBatch

\* What the batched call hands back when it fails as a whole or stops
\* early: fewer results than workflows, none included.
ShortResults(n) == UNION {[1..k -> BOOLEAN] : k \in 0..(n - 1)}

\* The batched Provider call returns an error, which the goroutine drops
\* (results, _ := ...), and fewer results than items.
BatchCallFailed(b, results) ==
    /\ b \in batches
    /\ b.pc = "call"
    /\ results \in ShortResults(b.n)
    /\ batches' = (batches \ {b}) \cup
         {[b EXCEPT !.pc = "post", !.todo = BatchClosures(b.id, results)]}
    /\ UNCHANGED <<batchItems, batchesMade, batchLog>>
    /\ UNCHANGED detailVars
    /\ UNCHANGED <<connVars, listVars, refreshVars>>
    /\ UNCHANGED afterBatch

\* QueueUpdateDraw of the goroutine's next closure; after a per-item
\* closure the goroutine sleeps 100 ms, after its last closure it returns.
BatchPost(b) ==
    /\ b \in batches
    /\ b.pc = "post"
    /\ CanPost
    /\ uiQueue' = Append(uiQueue, Head(b.todo))
    /\ batches' =
         IF Len(b.todo) = 1 THEN batches \ {b}
         ELSE (batches \ {b}) \cup
              {[b EXCEPT !.todo = Tail(b.todo),
                         !.pc = IF Head(b.todo).kind = "batchItem"
                                  THEN "sleep" ELSE "post"]}
    /\ UNCHANGED <<batchItems, batchesMade, batchLog>>
    /\ UNCHANGED detailVars
    /\ UNCHANGED connOnly
    /\ UNCHANGED <<listVars, refreshVars>>
    /\ UNCHANGED afterBatch

\* time.Sleep(100 * time.Millisecond) is over.
BatchWake(b) ==
    /\ b \in batches
    /\ b.pc = "sleep"
    /\ batches' = (batches \ {b}) \cup {[b EXCEPT !.pc = "post"]}
    /\ UNCHANGED <<batchItems, batchesMade, batchLog>>
    /\ UNCHANGED detailVars
    /\ UNCHANGED <<connVars, listVars, refreshVars>>
    /\ UNCHANGED afterBatch

\* BatchConfirmModal.MarkItemCompleted / MarkItemFailed
MarkItem(items, i, ok) ==
    [items EXCEPT ![i] = IF ok THEN "completed" ELSE "failed"]

\* The event loop runs the oldest closure: one a batch goroutine posted.
\* A per-item closure marks its item in the modal the batch was confirmed
\* in; the last closure is loadData and Table.ClearSelection.
UIRunBatch ==
    /\ uiRunning
    /\ uiQueue # <<>>
    /\ Head(uiQueue).kind \in {"batchItem", "batchRefresh"}
    /\ LET c == Head(uiQueue) IN
         IF c.kind = "batchItem"
           THEN /\ batchLog' = [batchLog EXCEPT ![c.b].items =
                                  MarkItem(@, c.i, c.ok)]
                /\ UNCHANGED batchItems
                /\ UNCHANGED <<wl, fetches, issued>>
           ELSE /\ LoadData
                /\ wl' = [wl EXCEPT !.loading = TRUE, !.selectedRows = {},
                                     !.markedAs = {}]
                /\ batchLog' = [batchLog EXCEPT ![c.b].refreshed = TRUE,
                                                ![c.b].atRefresh = batchLog[c.b].items]
                /\ UNCHANGED batchItems
    /\ uiQueue' = Tail(uiQueue)
    /\ UNCHANGED <<batches, batchesMade>>
    /\ UNCHANGED <<stack, cbActive, statsWorkflows, menuHints,
                   shownSeq, applied, inOrder>>
    /\ UNCHANGED detailVars
    /\ UNCHANGED connOnly
    /\ UNCHANGED refreshVars
    /\ UNCHANGED afterBatch

\* -------------------------------------------------------------------- theme
\* The palettes config.ThemeNames lists, and the one InitTheme loads.
Themes == {"dark", "light", "mono"}
DefaultTheme == "dark"

\* A colour is the palette it comes from and its field.
ColorOf(theme, field) == <<theme, field>>

\* config.LoadTheme: an unknown name or a malformed palette is an error.
LoadTheme(name, fileOk) == IF name \in Themes /\ fileOk THEN name ELSE "error"

\* SetTheme's assignment to activeTheme made before the error is looked at.
SetThemeSwapUnchecked(cur, loaded) == IF loaded = "error" THEN "nil" ELSE loaded

\* SetTheme up to themeMu.Unlock: an error returns before the assignment.
SetThemeSwap(cur, loaded) == IF loaded = "error" THEN cur ELSE loaded

\* applyGlobalStyles that leaves the text colour out.
ApplyGlobalStylesNoText(st, t) ==
    IF t = "nil" THEN st
    ELSE [st EXCEPT !.bg = ColorOf(t, "Bg")]

\* applyGlobalStyles: tview.Styles from the active theme (nothing when nil).
ApplyGlobalStyles(st, t) ==
    IF t = "nil" THEN st
    ELSE [bg |-> ColorOf(t, "Bg"), fg |-> ColorOf(t, "Fg")]

\* ColorBg, ColorFg, ...: a field of the active theme, read under RLock.
ColorGetter(field) ==
    IF activeTheme = "nil" THEN <<"default", field>> ELSE ColorOf(activeTheme, field)

\* No frame drawn yet.
NoFrame == [drawn |-> FALSE, committed |-> "nil", bg |-> <<>>, fg |-> <<>>,
            styleBg |-> <<>>, styleFg |-> <<>>]

ThemeInit ==
    /\ activeTheme = DefaultTheme
    /\ styles = ApplyGlobalStyles([bg |-> <<>>, fg |-> <<>>], DefaultTheme)
    /\ thPc = "idle"
    /\ thReq = [name |-> DefaultTheme, fileOk |-> TRUE]
    /\ thResult = "none"
    /\ savedTheme = DefaultTheme
    /\ frame = NoFrame

\* T in the global key handler: showThemeSelector.
KeyTheme ==
    /\ uiRunning
    /\ ~cbActive
    /\ modal = "none"
    /\ thPc = "idle"
    /\ modal' = "theme-selector"
    /\ thResult' = "none"
    /\ UNCHANGED <<activeTheme, styles, thPc, thReq, savedTheme, frame>>
    /\ UNCHANGED <<wd, calls, wdLoads, mutations>>
    /\ UNCHANGED <<connVars, listVars, refreshVars, batchVars>>
    /\ UNCHANGED afterTheme

\* Enter on an item of the selector: its callback calls SetTheme.  The
\* palette file of the name may have become unreadable.
SelectTheme(name, fileOk) ==
    /\ uiRunning
    /\ modal = "theme-selector"
    /\ thPc = "idle"
    /\ name \in Themes
    /\ thReq' = [name |-> name, fileOk |-> fileOk]
    /\ thPc' = "load"
    /\ UNCHANGED <<activeTheme, styles, thResult, savedTheme, frame>>
    /\ UNCHANGED detailVars
    /\ UNCHANGED <<connVars, listVars, refreshVars, batchVars>>
    /\ UNCHANGED afterTheme

\* SetTheme: LoadTheme, and either the error (the callback then closes the
\* selector) or the assignment under themeMu.
SetThemeLoad ==
    /\ thPc = "load"
    /\ LET loaded == LoadTheme(thReq.name, thReq.fileOk) IN
         /\ activeTheme' = SetThemeSwap(activeTheme, loaded)
         /\ IF loaded = "error"
              THEN /\ thResult' = "error"
                   /\ thPc' = "idle"
                   /\ modal' = CloseModal(modal, "theme-selector")
              ELSE /\ thPc' = "apply"
                   /\ UNCHANGED <<thResult, modal>>
    /\ UNCHANGED <<styles, thReq, savedTheme, frame>>
    /\ UNCHANGED <<wd, calls, wdLoads, mutations>>
    /\ UNCHANGED <<connVars, listVars, refreshVars, batchVars>>
    /\ UNCHANGED afterTheme

\* The rest of SetTheme and of the callback: applyGlobalStyles, the theme
\* saved to the configuration, an empty closure queued to force a redraw,
\* closeThemeSelector.
SetThemeApply ==
    /\ thPc = "apply"
    /\ CanPost
    /\ styles' = ApplyGlobalStyles(styles, activeTheme)
    /\ thResult' = "ok"
    /\ savedTheme' = thReq.name
    /\ uiQueue' = Append(uiQueue, [kind |-> "redraw"])
    /\ modal' = CloseModal(modal, "theme-selector")
    /\ thPc' = "idle"
    /\ UNCHANGED <<activeTheme, thReq, frame>>
    /\ UNCHANGED <<wd, calls, wdLoads, mutations>>
    /\ UNCHANGED connOnly
    /\ UNCHANGED <<listVars, refreshVars, batchVars>>
    /\ UNCHANGED afterTheme

\* Esc in the selector's list: closeThemeSelector.
EscThemeSelector ==
    /\ uiRunning
    /\ modal = "theme-selector"
    /\ thPc = "idle"
    /\ modal' = "none"
    /\ UNCHANGED <<activeTheme, styles, thPc, thReq, thResult, savedTheme, frame>>
    /\ UNCHANGED <<wd, calls, wdLoads, mutations>>
    /\ UNCHANGED <<connVars, listVars, refreshVars, batchVars>>
    /\ UNCHANGED afterTheme

\* The event loop runs the empty closure the theme callback queued.
UIRunRedraw ==
    /\ uiRunning
    /\ thPc = "idle"
    /\ uiQueue # <<>>
    /\ Head(uiQueue).kind = "redraw"
    /\ uiQueue' = Tail(uiQueue)
    /\ UNCHANGED connOnly
    /\ UNCHANGED <<listVars, extVars>>

\* The event loop draws a frame between two events: the components read
\* their colours through the getters and tview reads tview.Styles.
DrawFrame ==
    /\ uiRunning
    /\ thPc = "idle"
    /\ frame' = [drawn |-> TRUE, committed |-> activeTheme,
                 bg |-> ColorGetter("Bg"), fg |-> ColorGetter("Fg"),
                 styleBg |-> styles.bg, styleFg |-> styles.fg]
    /\ UNCHANGED <<activeTheme, styles, thPc, thReq, thResult, savedTheme>>
    /\ UNCHANGED detailVars
    /\ UNCHANGED <<connVars, listVars, refreshVars, batchVars>>
    /\ UNCHANGED afterTheme

\* ------------------------------------------------- visibility-query input
\* The query texts typed in the model: an early one and two around the
\* capacity of the history.
Queries == {1, maxHistorySize, maxHistorySize + 1}

\* The history after the queries 1..n were submitted in that order.
FirstQueries(n) == [i \in 1..n |-> i]

\* F on the list: showVisibilityQuery, the input pre-filled with the query
\* in force.
KeyQuery ==
    /\ uiRunning
    /\ ListFocused
    /\ modal' = "visibility-query"
    /\ vqText' = visibilityQuery
    /\ vqPos' = 0
    /\ UNCHANGED <<searchHistory, historyIndex, visibilityQuery>>
    /\ UNCHANGED <<wd, calls, wdLoads, mutations>>
    /\ UNCHANGED <<connVars, listVars, refreshVars, batchVars, themeVars, tqVars>>

\* Up in the input: the history provider with direction -1, its result
\* becomes the text.
VqUp ==
    /\ uiRunning
    /\ modal = "visibility-query"
    /\ LET r == HistoryPrevious(searchHistory, historyIndex, visibilityQuery)
       IN /\ r.idx = -1 \/ Len(searchHistory) - r.idx <= MaxBrowse
          /\ historyIndex' = r.idx
          /\ vqText' = r.text
    /\ vqPos' = IF vqPos = -1 THEN -1 ELSE Min(vqPos + 1, Len(searchHistory))
    /\ UNCHANGED <<searchHistory, visibilityQuery>>
    /\ UNCHANGED <<connVars, listVars, refreshVars, detailVars, batchVars,
                   themeVars, tqVars>>

\* Down in the input: the history provider with direction +1.
VqDown ==
    /\ uiRunning
    /\ modal = "visibility-query"
    /\ LET r == HistoryNext(searchHistory, historyIndex, visibilityQuery)
       IN /\ historyIndex' = r.idx
          /\ vqText' = r.text
    /\ vqPos' = IF vqPos <= 0 THEN -1 ELSE vqPos - 1
    /\ UNCHANGED <<searchHistory, visibilityQuery>>
    /\ UNCHANGED <<connVars, listVars, refreshVars, detailVars, batchVars,
                   themeVars, tqVars>>

\* The operator types a query over the text.
VqType(q) ==
    /\ uiRunning
    /\ modal = "visibility-query"
    /\ q \in Queries
    /\ vqText' = q
    /\ vqPos' = -1
    /\ UNCHANGED <<searchHistory, historyIndex, visibilityQuery>>
    /\ UNCHANGED <<connVars, listVars, refreshVars, detailVars, batchVars,
                   themeVars, tqVars>>

\* Enter in the input: onSubmit with the text.
VqEnter ==
    /\ uiRunning
    /\ modal = "visibility-query"
    /\ modal' = CloseModal(modal, "visibility-query")
    /\ OnSubmit(vqText)
    /\ vqPos' = -1
    /\ UNCHANGED vqText
    /\ UNCHANGED <<wd, calls, wdLoads, mutations>>
    /\ UNCHANGED <<stack, cbActive, statsWorkflows, menuHints,
                   shownSeq, applied, inOrder>>
    /\ UNCHANGED connVars
    /\ UNCHANGED <<refreshVars, batchVars, themeVars, tqVars>>

\* The input's cancel: onCancel closes it and resets the browsing position.
VqCancel ==
    /\ uiRunning
    /\ modal = "visibility-query"
    /\ modal' = CloseModal(modal, "visibility-query")
    /\ historyIndex' = -1
    /\ vqPos' = -1
    /\ UNCHANGED <<searchHistory, visibilityQuery, vqText>>
    /\ UNCHANGED <<wd, calls, wdLoads, mutations>>
    /\ UNCHANGED <<connVars, listVars, refreshVars, batchVars, themeVars, tqVars>>

\* ------------------------------------------------------------ TaskQueueView
\* NewTaskQueueView: no queues yet, nothing selected.
\* pollersOf is the queue index whose DescribeTaskQueue outcome the poller
\* table shows (-1: none).
NewTaskQueueView ==
    [queues |-> 0, placeholder |-> FALSE, described |-> {}, selRow |-> -1,
     suppressSelect |-> FALSE, loading |-> FALSE, pollers |-> "none",
     pollersOf |-> -1]

TqHints == [screen |-> "task-queues", mode |-> FALSE, marked |-> FALSE]

\* The newest TaskQueueView is on top and has the keyboard.
TqFocused ==
    uiRunning /\ Top(stack) = "task-queues" /\ ~cbActive /\ modal = "none"

\* loadPollers up to its goroutine: the view after it and the queue indexes
\* DescribeTaskQueue is started for (none when out of range).
LoadPollers(t, queueIndex) ==
    IF queueIndex < 0 \/ queueIndex >= t.queues
      THEN [t |-> t, started |-> <<>>]
      ELSE [t |-> [t EXCEPT !.pollers = "cleared", !.pollersOf = -1],
            started |-> <<queueIndex>>]

\* The selection-changed handler without its look at suppressSelect.
SelectionChangedUnguarded(t, row) ==
    IF row > 0 /\ row - 1 < t.queues THEN LoadPollers(t, row - 1)
    ELSE [t |-> t, started |-> <<>>]

\* The selection-changed handler of the queue table, called with the row
\* of the tview table (the header is row 0).
SelectionChanged(t, row) ==
    IF t.suppressSelect THEN [t |-> t, started |-> <<>>]
    ELSE IF row > 0 /\ row - 1 < t.queues THEN LoadPollers(t, row - 1)
    ELSE [t |-> t, started |-> <<>>]

\* Table.SelectRow: tview's Select stores the row and calls the handler.
SelectRow(t, row) == SelectionChanged([t EXCEPT !.selRow = row], row + 1)

\* populateQueueTable: the rows rebuilt and row 0 selected with
\* suppressSelect set, unless the caller has set it already.
PopulateQueueTable(t) ==
    IF t.queues > 0
      THEN LET wasSuppress == t.suppressSelect
               r == SelectRow([t EXCEPT !.suppressSelect = TRUE], 0)
           IN [t |-> [r.t EXCEPT !.suppressSelect = wasSuppress],
               started |-> r.started]
      ELSE [t |-> t, started |-> <<>>]

\* updateQueueInfo: the entry updated, the table rebuilt and the row
\* selected again, all with suppressSelect set.
UpdateQueueInfo(t, queueIndex) ==
    IF queueIndex < 0 \/ queueIndex >= t.queues
      THEN [t |-> t, started |-> <<>>]
      ELSE LET p == PopulateQueueTable(
                      [t EXCEPT !.described = @ \cup {queueIndex},
                                !.suppressSelect = TRUE])
               r == SelectRow(p.t, queueIndex)
           IN [t |-> [r.t EXCEPT !.suppressSelect = FALSE],
               started |-> p.started \o r.started]

\* The closure of loadData: n is the number of distinct task queues among
\* the workflows listed.
TqLoadedClosure(t, ok, n) ==
    LET t0 == [t EXCEPT !.loading = FALSE] IN
    IF ~ok THEN [t |-> t0, started |-> <<>>, count |-> -1]
    ELSE LET t1 == [t0 EXCEPT !.queues = IF n = 0 THEN 1 ELSE n,
                              !.placeholder = (n = 0),
                              !.described = {}]
             p == PopulateQueueTable(t1)
             l == IF ~p.t.placeholder THEN LoadPollers(p.t, 0)
                  ELSE [t |-> p.t, started |-> <<>>]
         IN [t |-> l.t, started |-> p.started \o l.started,
             count |-> t1.queues]

\* The closure of loadPollers.
TqPollersClosure(t, queueIndex, ok, hasInfo) ==
    IF ~ok THEN [t |-> [t EXCEPT !.pollers = "error", !.pollersOf = queueIndex],
                 started |-> <<>>]
    ELSE LET u == IF hasInfo THEN UpdateQueueInfo(t, queueIndex)
                  ELSE [t |-> t, started |-> <<>>]
         IN [t |-> [u.t EXCEPT !.pollers = "shown", !.pollersOf = queueIndex],
             started |-> u.started]

\* The goroutines of loadPollers started by one handler or closure.
StartDescribes(view, started) ==
    /\ tqCalls' = tqCalls \cup
         {[n |-> tqDescribes + i, view |-> view, idx |-> started[i]] :
            i \in 1..Len(started)}
    /\ tqDescribes' = tqDescribes + Len(started)

\* t on the workflow list: NavigateToTaskQueues, Pages.Push, Start, which
\* ends in loadData.  The operator opens the view once.
PushTaskQueues ==
    /\ ListFocused
    /\ uiRunning
    /\ tq = <<>>
    /\ stack' = PagesPush(stack, "task-queues")
    /\ tq' = Append(tq, [NewTaskQueueView EXCEPT !.loading = TRUE])
    /\ tqFetches' = tqFetches \cup {Len(tq) + 1}
    /\ menuHints' = TqHints
    /\ UNCHANGED <<tqCalls, statsTaskQueues, tqDescribes>>
    /\ UNCHANGED <<cbActive, statsWorkflows, wl, fetches, issued, shownSeq,
                   applied, inOrder>>
    /\ UNCHANGED <<connVars, refreshVars, detailVars, batchVars, themeVars,
                   histVars>>

\* The goroutine of loadData: ListWorkflows returns and the closure is
\* posted.
TqListDone(view, ok, n) ==
    /\ view \in tqFetches
    /\ CanPost
    /\ n \in 0..MaxQueues
    /\ ~ok => n = 0
    /\ tqFetches' = tqFetches \ {view}
    /\ uiQueue' = Append(uiQueue,
          [kind |-> "tqLoaded", view |-> view, ok |-> ok, n |-> n])
    /\ UNCHANGED <<tq, tqCalls, statsTaskQueues, tqDescribes>>
    /\ UNCHANGED connOnly
    /\ UNCHANGED <<listVars, refreshVars, detailVars, batchVars, themeVars,
                   histVars>>

\* A goroutine of loadPollers: DescribeTaskQueue returns and the closure
\* is posted.
TqDescribeDone(c, ok, hasInfo) ==
    /\ c \in tqCalls
    /\ CanPost
    /\ ~ok => ~hasInfo
    /\ tqCalls' = tqCalls \ {c}
    /\ uiQueue' = Append(uiQueue,
          [kind |-> "tqPollers", view |-> c.view, idx |-> c.idx, ok |-> ok,
           hasInfo |-> hasInfo])
    /\ UNCHANGED <<tq, tqFetches, statsTaskQueues, tqDescribes>>
    /\ UNCHANGED connOnly
    /\ UNCHANGED <<listVars, refreshVars, detailVars, batchVars, themeVars,
                   histVars>>

TqKinds == {"tqLoaded", "tqPollers"}

\* The event loop runs the oldest closure: one a goroutine of a
\* TaskQueueView posted.  It runs on the view that started the goroutine,
\* on the stack or not.
UIRunTq ==
    /\ uiRunning
    /\ uiQueue # <<>>
    /\ Head(uiQueue).kind \in TqKinds
    /\ LET c == Head(uiQueue)
           r == IF c.kind = "tqLoaded"
                  THEN TqLoadedClosure(tq[c.view], c.ok, c.n)
                  ELSE TqPollersClosure(tq[c.view], c.idx, c.ok, c.hasInfo)
       IN /\ tq' = [tq EXCEPT ![c.view] = r.t]
          /\ StartDescribes(c.view, r.started)
          /\ statsTaskQueues' = IF c.kind = "tqLoaded" /\ c.ok THEN r.count
                                ELSE statsTaskQueues
    /\ uiQueue' = Tail(uiQueue)
    /\ UNCHANGED tqFetches
    /\ UNCHANGED connOnly
    /\ UNCHANGED <<listVars, refreshVars, detailVars, batchVars, themeVars,
                   histVars>>

\* The operator moves the selection of the queue table to another row:
\* tview calls the selection-changed handler.
TqKeyMove(row) ==
    /\ TqFocused
    /\ tqDescribes < MaxTqKeys
    /\ LET t == tq[Len(tq)] IN
         /\ row \in 0..(t.queues - 1)
         /\ row # t.selRow
         /\ LET r == SelectRow(t, row) IN
              /\ tq' = [tq EXCEPT ![Len(tq)] = r.t]
              /\ StartDescribes(Len(tq), r.started)
    /\ UNCHANGED <<tqFetches, statsTaskQueues>>
    /\ UNCHANGED <<connVars, listVars, refreshVars, detailVars, batchVars,
                   themeVars, histVars>>

\* r on the queue table: refreshCurrentQueue.
TqKeyRefresh ==
    /\ TqFocused
    /\ tqDescribes < MaxTqKeys
    /\ LET t == tq[Len(tq)]
           r == IF t.selRow >= 0 /\ t.selRow < t.queues
                  THEN LoadPollers(t, t.selRow)
                  ELSE [t |-> t, started |-> <<>>]
       IN /\ tq' = [tq EXCEPT ![Len(tq)] = r.t]
          /\ StartDescribes(Len(tq), r.started)
    /\ UNCHANGED <<tqFetches, statsTaskQueues>>
    /\ UNCHANGED <<connVars, listVars, refreshVars, detailVars, batchVars,
                   themeVars, histVars>>

\* Esc or Backspace in the global key handler on the view: Pages.Pop and
\* the view's Stop.  Its goroutines and closures stay behind.
PopTq ==
    /\ TqFocused
    /\ PagesCanPop(stack)
    /\ stack' = PagesPop(stack)
    /\ menuHints' = WlHints(wl)
    /\ UNCHANGED tqVars
    /\ UNCHANGED <<cbActive, statsWorkflows, wl, fetches, issued, shownSeq,
                   applied, inOrder>>
    /\ UNCHANGED <<connVars, refreshVars, detailVars, batchVars, themeVars,
                   histVars>>

\* ------------------------------------------------------------ specification
ConnNext ==
    \/ ServerToggle
    \/ MonitorTick
    \/ MonitorExit
    \/ MonitorRpc
    \/ MonitorSetConn
    \/ MonitorProbeFailed
    \/ MonitorProbeOk
    \/ \E b \in BagToSet(sleeping) : TaskStopped(b)
    \/ \E b \in BagToSet(sleeping) : TaskWake(b)
    \/ TaskDial
    \/ UIRunConn
    \/ AppStop

RefreshInit ==
    /\ arOn = FALSE
    /\ refreshTicker = 0
    /\ liveTickers = {}
    /\ tickersMade = 0
    /\ arTasks = {}
    /\ arPanic = FALSE

DetailInit ==
    /\ wd = NoDetail
    /\ modal = "none"
    /\ calls = {}
    /\ wdLoads = 0
    /\ mutations = 0

BatchInit ==
    /\ batches = {}
    /\ batchItems = <<>>
    /\ batchesMade = 0
    /\ batchLog = <<>>

HistInit ==
    /\ searchHistory = <<>>
    /\ historyIndex = -1
    /\ visibilityQuery = NoQuery
    /\ vqText = NoQuery
    /\ vqPos = -1

TqInit ==
    /\ tq = <<>>
    /\ tqFetches = {}
    /\ tqCalls = {}
    /\ statsTaskQueues = 0
    /\ tqDescribes = 0

Init == ConnInit /\ ListInit /\ RefreshInit /\ DetailInit /\ BatchInit /\ ThemeInit
        /\ HistInit /\ TqInit

SpecConn == Init /\ [][ConnNext]_vars

\* The supervisor together with a screen that queries the provider.
ProviderNext ==
    \/ ConnNext
    \/ QueryStart
    \/ QueryRpc

SpecProvider == Init /\ [][ProviderNext]_vars

SpecList == Init /\ [][ListNext]_vars

\* The list screen with auto-refresh: its ticker, goroutines and closures.
RefreshNext ==
    \/ PushWorkflows
    \/ PopScreen
    \/ KeyAutoRefresh
    \/ \E k \in arTasks : ArEnter(k)
    \/ \E k \in arTasks : ArTick(k)
    \/ \E k \in arTasks : ArPost(k)
    \/ UIRunRefresh

SpecRefresh == Init /\ [][RefreshNext]_vars

\* The detail screen, reached through the list, and its mutations.
DetailNext ==
    \/ PushWorkflows
    \/ \E f \in fetches, ok \in BOOLEAN, data \in Datasets : FetchDone(f, ok, data)
    \/ UIRunList
    \/ PushDetail
    \/ WdKeyRefresh
    \/ \E page \in ConfirmPages : ShowConfirm(page)
    \/ ModalConfirm
    \/ \E c \in calls, ok \in BOOLEAN : CallDone(c, ok)
    \/ UIRunDetail
    \/ EscModal
    \/ PopDetail

SpecDetail == Init /\ [][DetailNext]_vars

\* The batch operations of the list.
BatchNext ==
    \/ PushWorkflows
    \/ \E f \in fetches, ok \in BOOLEAN, data \in Datasets : FetchDone(f, ok, data)
    \/ UIRunList
    \/ KeySelectMode
    \/ KeySpace
    \/ \E row \in 0..(Len(DataA) - 1) : KeyMove(row)
    \/ ShowBatchConfirm
    \/ BatchConfirm
    \/ \E b \in batches : \E results \in BatchResults(b.n) : BatchCallDone(b, results)
    \/ \E b \in batches : BatchPost(b)
    \/ \E b \in batches : BatchWake(b)
    \/ UIRunBatch
    \/ EscModal

SpecBatch == Init /\ [][BatchNext]_vars

\* The batch operations with a batched call that may fail, every goroutine
\* scheduled fairly: Provider calls return (each has a deadline), sleeps
\* end, closures are posted and the event loop runs them.  The operator is
\* under no obligation.
BatchFairNext ==
    \/ BatchNext
    \/ \E b \in batches : \E results \in ShortResults(b.n) : BatchCallFailed(b, results)

BatchFairness ==
    /\ WF_vars(\E f \in fetches, ok \in BOOLEAN, data \in Datasets : FetchDone(f, ok, data))
    /\ WF_vars(UIRunList)
    /\ WF_vars(\E b \in batches :
                  \/ \E results \in BatchResults(b.n) : BatchCallDone(b, results)
                  \/ \E results \in ShortResults(b.n) : BatchCallFailed(b, results))
    /\ WF_vars(\E b \in batches : BatchPost(b))
    /\ WF_vars(\E b \in batches : BatchWake(b))
    /\ WF_vars(UIRunBatch)

SpecBatchFair == Init /\ [][BatchFairNext]_vars /\ BatchFairness

\* The modal text inputs and the keys typed while one is open.
InputNext ==
    \/ ShowCreateForm
    \/ NsFormCancel
    \/ AppStop
    \/ PushWorkflows
    \/ \E f \in fetches : FetchDone(f, TRUE, DataA)
    \/ UIRunList
    \/ KeyQuery
    \/ VqUp
    \/ VqDown
    \/ \E q \in Queries : VqType(q)
    \/ VqEnter
    \/ VqCancel
    \/ EscModal

SpecInput == Init /\ [][InputNext]_vars

\* A workflow detail, its loads and its resets, every Provider call
\* succeeding.
ResetNext ==
    \/ PushWorkflows
    \/ \E f \in fetches : FetchDone(f, TRUE, DataA)
    \/ UIRunList
    \/ PushDetail
    \/ WdKeyRefresh
    \/ ShowResetConfirm
    \/ ResetConfirm
    \/ \E c \in calls : CallArgs(c)
    \/ \E c \in calls : CallDone(c, TRUE)
    \/ UIRunDetail
    \/ UIRunReset
    \/ EscModal

SpecReset == Init /\ [][ResetNext]_vars

\* Marking rows, refreshing the list and confirming a batch.
MarkNext ==
    \/ PushWorkflows
    \/ KeyRefresh
    \/ \E f \in fetches, ok \in BOOLEAN, data \in Datasets : FetchDone(f, ok, data)
    \/ UIRunList
    \/ KeySelectMode
    \/ KeySpace
    \/ \E row \in 0..(Len(DataA) - 1) : KeyMove(row)
    \/ ShowBatchConfirm
    \/ BatchConfirm
    \/ EscModal

SpecMark == Init /\ [][MarkNext]_vars

\* The theme selector and the frames drawn around it.
ThemeNext ==
    \/ KeyTheme
    \/ \E name \in Themes, fileOk \in BOOLEAN : SelectTheme(name, fileOk)
    \/ SetThemeLoad
    \/ SetThemeApply
    \/ EscThemeSelector
    \/ UIRunRedraw
    \/ DrawFrame
    \/ PushWorkflows
    \/ PopScreen

SpecTheme == Init /\ [][ThemeNext]_vars

\* A workflow list that is on the stack, loaded and idle, after the queries
\* 1..n were submitted to it, for no query, a few, one short of the
\* capacity and the capacity; the numbering of its fetches starts again.
InitHistory ==
    /\ ConnInit /\ RefreshInit /\ DetailInit /\ BatchInit /\ ThemeInit /\ TqInit
    /\ stack = <<"namespaces", "workflows">>
    /\ cbActive = FALSE
    /\ wl = ApplyFilter([NewWorkflowList EXCEPT !.allWorkflows = DataA])
    /\ statsWorkflows = StatsOf(DataA)
    /\ menuHints = WlHints(NewWorkflowList)
    /\ fetches = {}
    /\ issued = 0
    /\ shownSeq = 0
    /\ applied = 0
    /\ inOrder = TRUE
    /\ \E n \in {0, 2, maxHistorySize - 1, maxHistorySize} :
          /\ searchHistory = FirstQueries(n)
          /\ visibilityQuery = n
    /\ historyIndex = -1
    /\ vqText = NoQuery
    /\ vqPos = -1

HistoryNext_ ==
    \/ KeyQuery
    \/ VqUp
    \/ VqDown
    \/ \E q \in Queries : VqType(q)
    \/ VqEnter
    \/ VqCancel

SpecHistory == InitHistory /\ [][HistoryNext_]_vars

\* The task-queue view opened from a loaded workflow list.
TqNext ==
    \/ PushTaskQueues
    \/ \E view \in tqFetches : \E ok \in BOOLEAN : \E n \in 0..MaxQueues :
          TqListDone(view, ok, n)
    \/ \E c \in tqCalls : \E ok, hasInfo \in BOOLEAN : TqDescribeDone(c, ok, hasInfo)
    \/ UIRunTq
    \/ \E row \in 0..(MaxQueues - 1) : TqKeyMove(row)
    \/ TqKeyRefresh
    \/ PopTq

SpecTq == InitHistory /\ [][TqNext]_vars

\* The supervisor with its goroutines scheduled fairly: the ticker keeps
\* firing, every goroutine that can take its next step takes it, sleeps
\* end, and the event loop runs the closures queued.  The server and the
\* operator are under no obligation.
ConnFairness ==
    /\ WF_vars(MonitorTick)
    /\ WF_vars(MonitorRpc)
    /\ WF_vars(MonitorSetConn)
    /\ WF_vars(MonitorProbeFailed)
    /\ WF_vars(MonitorProbeOk)
    /\ WF_vars(\E b \in BagToSet(sleeping) : TaskWake(b))
    /\ WF_vars(TaskDial)
    /\ WF_vars(UIRunConn)

SpecConnFair == Init /\ [][ConnNext]_vars /\ ConnFairness

\* The view stack: screens pushed and popped by keys and by the closure of
\* a delete, and q.  The server holds DataA, and of the detail's calls the
\* deletes are the ones that return.
StackNext ==
    \/ PushWorkflows
    \/ \E f \in fetches : FetchDone(f, TRUE, DataA)
    \/ UIRunList
    \/ PopScreen
    \/ PushDetail
    \/ \E c \in calls, ok \in BOOLEAN : c.kind = "DeleteWorkflow" /\ CallDone(c, ok)
    \/ PopDetail
    \/ ShowDeleteConfirm
    \/ DeleteConfirm
    \/ UIRunDelete
    \/ EscModal
    \/ AppStop

SpecStack == Init /\ [][StackNext]_vars

\* ====================================================================
\* Properties of the connection supervisor
\* ====================================================================

\* A step in which connectionMonitor starts an attemptReconnect goroutine;
\* probeFresh says that the failed probe behind it began after the last success.
SpawnStep == BagCardinality(sleeping') > BagCardinality(sleeping)

\* A step in which the UI thread runs the closure of a failed reconnect.
FailedReconnectClosureStep ==
    /\ uiQueue # <<>>
    /\ Head(uiQueue).kind = "reconnected"
    /\ ~Head(uiQueue).ok
    /\ uiQueue' = Tail(uiQueue)

\* C1: at every instant at most one reconnect task has been spawned and has
\* not yet finished (sleeping in backoff or calling reconnect()).
C1_AtMostOneReconnect == InFlight <= 1

\* C2: when a reconnect task's reconnect() call fails, `reconnecting` is
\* cleared: after the UI thread has run the closure of a failed reconnect,
\* reconnecting is false, so the next failed probe may spawn a new task.
C2_FailureClearsReconnecting ==
    [][FailedReconnectClosureStep => ~reconnecting']_vars

\* C3: the k-th reconnect attempt of a run of attempts with no intervening
\* success (successful probe or successful reconnect) sleeps
\* min(B0 * 2^(k-1), Bmax); streak = k - 1 counts the earlier attempts.
C3_BackoffSchedule ==
    [][(SpawnStep /\ probeFresh) =>
         backoff = Min(reconnectInitialBackoff * Pow2(streak),
                       reconnectMaxBackoff)]_vars

\* C4: after any success (probe or reconnect) the sleep before the next
\* reconnect attempt is B0: an attempt spawned with no attempt since the last
\* success is started with reconnectInitialBackoff.
C4_SuccessResetsBackoff ==
    [][(SpawnStep /\ probeFresh /\ streak = 0) => backoff = reconnectInitialBackoff]_vars

\* C5: in every reachable state the supervisor's backoff, and the sleep of
\* every reconnect task started with it, lies in [B0, Bmax].
C5_BackoffInRange ==
    /\ backoff >= reconnectInitialBackoff
    /\ backoff <= reconnectMaxBackoff
    /\ \A b \in BagToSet(sleeping) :
          b >= reconnectInitialBackoff /\ b <= reconnectMaxBackoff

\* C5 witness: the doubling has hit the cap and a task sleeps the maximum.
C5_Witness ==
    /\ backoff = reconnectMaxBackoff
    /\ BagIn(reconnectMaxBackoff, sleeping)

\* C6: every provider query returns a result or an error, also while a
\* reconnect is in progress and after a reconnect has failed.
C6_QueriesReturn == qOut \in {"none", "result", "error"}

\* ------------------------------------------------- properties of the list

\* The event loop runs a closure of loadData on the list that is on the stack.
ApplyStep ==
    /\ uiQueue # <<>>
    /\ Head(uiQueue).kind = "wlLoaded"
    /\ ~Head(uiQueue).det
    /\ uiQueue' = Tail(uiQueue)
    /\ stack' = stack

\* The event loop runs a closure of loadData whose list was popped.
DetachedStep ==
    /\ uiQueue # <<>>
    /\ Head(uiQueue).kind = "wlLoaded"
    /\ Head(uiQueue).det
    /\ uiQueue' = Tail(uiQueue)

\* No fetch of the list on the stack is running or waiting in the queue.
Drained == AttachedFetches = {} /\ AttachedQueued = {}

\* The table and the list's data show the outcome c of a fetch: its
\* workflows, filtered, one row each; or the error row.
Renders(l, c) ==
    IF c.ok
      THEN /\ l.allWorkflows = c.data
           /\ l.workflows = FilterWorkflows(c.data, l.filterText)
           /\ l.rows = RowsOf(l.workflows)
           /\ l.leftContent = IF l.workflows # <<>> THEN "table"
                              ELSE IF c.data = <<>> THEN "empty" ELSE "noresults"
      ELSE l.rows = <<ErrorRow>>

\* C7: once the outcome of a newer fetch has been applied to the list, running
\* the closure of an older fetch of the same list does not change what the
\* table displays.
C7_NoStaleAfterNewer ==
    [][(ApplyStep /\ Head(uiQueue).seq < shownSeq) => wl'.rows = wl.rows]_vars

C9_LateResultNoOp ==
    [][DetachedStep => /\ menuHints' = menuHints
                       /\ statsWorkflows' = statsWorkflows
                       /\ stack' = stack]_vars

\* C10: whenever the filter text changes, or a refresh replaces the dataset,
\* while the list stays on the stack, the set of marked rows is empty
\* afterwards.
C10_SelectionCleared ==
    [][(stack' = stack /\ (\/ wl'.filterText # wl.filterText
                           \/ wl'.allWorkflows # wl.allWorkflows))
         => wl'.selectedRows = {}]_vars

\* A closure of loadData that brought workflows runs on the list on the stack.
RefreshApplied == ApplyStep /\ Head(uiQueue).ok

\* The table is on display with one row per visible workflow and the cursor
\* on one of them.
HasSelection(l) ==
    /\ l.leftContent = "table"
    /\ l.rows = RowsOf(l.workflows)
    /\ l.selRow >= 0
    /\ l.selRow < Len(l.workflows)

\* The workflow under the cursor.
SelectedItem(l) == l.workflows[l.selRow + 1]

\* The operator empties the filter text in the filter bar.
FilterBarClearStep ==
    /\ cbActive
    /\ stack' = stack
    /\ wl.filterText # <<>>
    /\ wl'.filterText = <<>>

\* C11: when a substring filter that was applied is cleared, every workflow of
\* allWorkflows is visible again and the workflow that was under the cursor
\* is still the one under the cursor.
C11_ClearFilterKeepsSelection ==
    [][(FilterBarClearStep /\ HasSelection(wl))
         => /\ wl'.workflows = wl'.allWorkflows
            /\ HasSelection(wl')
            /\ SelectedItem(wl') = SelectedItem(wl)]_vars

\* C12: after a refresh is applied, the cursor stays on its position when the
\* visible workflows still have that position, and otherwise is on position 0
\* when there are visible workflows.
C12_RefreshKeepsPosition ==
    [][RefreshApplied =>
         (Len(wl'.workflows) > 0 =>
            wl'.selRow = IF wl.selRow >= 0 /\ wl.selRow < Len(wl'.workflows)
                           THEN wl.selRow ELSE 0)]_vars

\* Two refreshes were applied and the cursor is on the second of two rows.
C12_Witness ==
    /\ Top(stack) = "workflows"
    /\ applied = 2
    /\ Drained
    /\ wl.rows = RowsOf(DataA)
    /\ wl.selRow = 1

\* The workflow w has the case-folded text in its id, type or status.
FoldedMatch(w, text) ==
    \E field \in {w.id, w.type, w.status} :
        Contains(ToLower(field), ToLower(text))

\* The subsequence of all, in order, of the workflows that match text.
RECURSIVE VisibleOf(_, _)
VisibleOf(all, text) ==
    IF all = <<>> THEN <<>>
    ELSE (IF FoldedMatch(Head(all), text) THEN <<Head(all)>> ELSE <<>>)
           \o VisibleOf(Tail(all), text)

\* C13: after any change of the filter text and after any applied refresh,
\* the visible workflows are exactly the workflows of allWorkflows, in
\* dataset order, that have the case-folded filter text in their id, type
\* or status.
C13_VisibleIsFiltered ==
    [][(stack' = stack /\ Top(stack) = "workflows"
          /\ (wl'.filterText # wl.filterText \/ RefreshApplied))
         => wl'.workflows = VisibleOf(wl'.allWorkflows, wl'.filterText)]_vars

\* ------------------------------------------- properties of auto-refresh

\* Refresh goroutines of the list on the stack.
AttachedTasks == {k \in arTasks : ~k.det}

\* The operator toggles auto-refresh off.
ToggleOffStep == arOn /\ ~arOn' /\ stack' = stack

\* stopAutoRefresh can be called: the event loop runs and the list has the
\* keyboard.
CanStop == uiRunning /\ ~arPanic /\ ListFocused

\* C14: toggling auto-refresh on and then off leaves no ticker and no refresh
\* goroutine behind: after the toggle-off the ticker is stopped and the
\* goroutine the toggle-on started has returned, wherever in its loop it was.
C14_ToggleLeavesNothing ==
    [][ToggleOffStep => (liveTickers' = {} /\ AttachedTasks' = {})]_vars

C16_NoFetchAfterPop ==
    [][(Top(stack) = "namespaces" /\ stack' = stack) => issued' = issued]_vars


\* ------------------------------------------ properties of the detail screen
\* The event loop runs the completion closure of a failed mutation of the
\* detail on the stack.
FailedMutationStep ==
    /\ uiQueue # <<>>
    /\ Head(uiQueue).kind \in {"CancelWorkflow", "TerminateWorkflow"}
    /\ ~Head(uiQueue).ok
    /\ ~Head(uiQueue).det
    /\ uiQueue' = Tail(uiQueue)

\* C17: when a confirmed mutation fails, its completion closure closes the
\* confirmation modal, displays the error and then refreshes the invoking
\* screen (a loadData call is issued).
C17_FailedMutationRefreshes ==
    [][FailedMutationStep =>
         /\ modal' # Head(uiQueue).page
         /\ wd'.workflowView = "error"
         /\ wdLoads' = wdLoads + 1]_vars

\* The confirmed mutation of the modal in front is inside its Provider call.
MutationInFlight ==
    \E c \in calls : c.page = modal /\ c.page \in ConfirmPages /\ ~c.det

\* C18: once a mutation has been confirmed, its modal closes only after the
\* Provider call has completed: no step closes the modal while a call it
\* confirmed is in flight.
C18_ModalOpenWhileInFlight ==
    [][(modal \in ConfirmPages /\ MutationInFlight) => modal' = modal]_vars

\* The event loop runs the closure of a failed fetch of a screen that is on
\* the stack.
FailedQueryStep ==
    /\ uiQueue # <<>>
    /\ Head(uiQueue).kind \in {"wlLoaded", "GetWorkflow", "GetWorkflowHistory"}
    /\ ~Head(uiQueue).ok
    /\ ~Head(uiQueue).det
    /\ uiQueue' = Tail(uiQueue)

\* C20: a failed query of a screen is displayed as an error in the panel
\* the query feeds (the list's table, the detail's workflow view, the
\* detail's event table) and the screen stays on the view stack; this holds
\* for both parallel fetches of the detail.
C20_FailedQueryShown ==
    [][FailedQueryStep =>
         /\ stack' = stack
         /\ Head(uiQueue).kind = "wlLoaded" =>
               (wl'.rows = <<ErrorRow>> /\ wl'.leftContent = "table")
         /\ Head(uiQueue).kind = "GetWorkflow" => wd'.workflowView = "error"
         /\ Head(uiQueue).kind = "GetWorkflowHistory" => wd'.eventTable = "error"]_vars

C22_FailedLoadKeepsTheme ==
    [][(thPc = "load" /\ LoadTheme(thReq.name, thReq.fileOk) = "error" /\ thPc' # "load")
         => /\ thResult' = "error"
            /\ activeTheme' = activeTheme
            /\ styles' = styles
            /\ savedTheme' = savedTheme]_vars

\* A failed SetTheme after a theme other than the initial one was set.
C22_Witness ==
    thResult = "error" /\ activeTheme # DefaultTheme /\ activeTheme # "nil"

\* ------------------------------------------- properties of the search history
\* C26: after any sequence of visibility-query submissions the search
\* history holds at most 50 entries.
C26_HistoryAtMost50 == Len(searchHistory) <= 50

\* A history at its capacity whose oldest entry was dropped for a new one.
C26_Witness ==
    /\ Len(searchHistory) = maxHistorySize
    /\ searchHistory[1] # 1
    /\ searchHistory[Len(searchHistory)] = maxHistorySize + 1

\* C27: the search history contains no entry twice, and submitting a query
\* that it already holds yields the history without that entry, followed
\* by that entry.
C27_HistoryNoDuplicates ==
    /\ [](\A i, j \in 1..Len(searchHistory) :
            searchHistory[i] = searchHistory[j] => i = j)
    /\ [][(modal = "visibility-query" /\ modal' = "none"
             /\ visibilityQuery' = vqText /\ issued' # issued
             /\ \E i \in 1..Len(searchHistory) : searchHistory[i] = vqText)
            => searchHistory' = Append(SelectSeq(searchHistory,
                                                 LAMBDA e : e # vqText), vqText)]_vars

\* A query that was not the newest entry was submitted again.
C27_Witness ==
    /\ searchHistory = <<2, 1>>
    /\ visibilityQuery = 1
    /\ modal = "none"

\* C28: with the input freshly opened on the history q1..qn, the i-th
\* consecutive Up (i <= n) shows q(n-i+1), each following Down shows the
\* next newer entry, and Down from the newest entry shows an empty input.
\* vqPos counts the entries browsed back since the input was opened.
C28_HistoryBrowsing ==
    [][(modal = "visibility-query" /\ modal' = "visibility-query" /\ vqPos >= 0)
        => LET n == Len(searchHistory)
           IN /\ (vqPos' = vqPos + 1) => vqText' = searchHistory[n - vqPos]
              /\ (vqPos' = vqPos - 1 /\ vqPos >= 2)
                    => vqText' = searchHistory[n - vqPos + 2]
              /\ (vqPos' = vqPos - 1 /\ vqPos = 1) => vqText' = NoQuery]_vars

\* --------------------------------------- properties of the task-queue view
\* C29: while a programmatic refresh of the queue table reassigns the
\* selection, the selection-changed handler starts no poller fetch: the
\* closure of a DescribeTaskQueue call starts no further call, and no
\* handler or closure starts more than one.
C29_NoFetchFromRefresh ==
    [][/\ (uiQueue # <<>> /\ Head(uiQueue).kind = "tqPollers"
              /\ uiQueue' = Tail(uiQueue))
            => tqDescribes' = tqDescribes
       /\ tqDescribes' <= tqDescribes + 1]_vars

\* updateQueueInfo rebuilt the table and selected a row other than the
\* first again, and no call is in flight or queued after it.
C29_Witness ==
    /\ tq # <<>>
    /\ tq[Len(tq)].described # {}
    /\ tq[Len(tq)].selRow = 1
    /\ tq[Len(tq)].pollers = "shown"
    /\ tqCalls = {}
    /\ uiQueue = <<>>

\* ------------------------------------------------ properties of the stack
\* C24: after startup the view stack always holds at least the root
\* screen, whatever keys, pops and completions of background calls occur.
C24_RootStaysOnStack == Len(stack) >= 1 /\ stack[1] = "namespaces"

\* The closure of a successful delete is the next to run, and calls
\* Pages.Pop, with only the root left on the stack: the detail and the list
\* were popped while the delete was in flight.
C24_Witness ==
    /\ stack = <<"namespaces">>
    /\ uiRunning
    /\ modal = "none"
    /\ uiQueue # <<>>
    /\ Head(uiQueue).kind = "DeleteWorkflow"
    /\ Head(uiQueue).ok

\* C25: q quits when the root screen has the keyboard, the quit signals
\* the supervisor and stops the event loop, and nothing stops the event
\* loop while another screen is on the stack.
C25_QuitOnlyAtRoot ==
    /\ []((Running /\ uiRunning /\ stack = <<"namespaces">> /\ ~cbActive
            /\ modal = "none") => ENABLED AppStop)
    /\ [][(uiRunning /\ ~uiRunning') => (Len(stack) = 1 /\ stopMonitor')]_vars

\* The application was quit after screens had been pushed and popped.
C25_Witness ==
    /\ ~uiRunning
    /\ stopMonitor
    /\ stack = <<"namespaces">>
    /\ wdLoads > 0

\* ------------------------------------- properties of shutdown and recovery
\* C23: once shutdown has been signalled on the stop channel, the
\* supervisor starts no further probe and no reconnect task goes on to
\* call Reconnect.
C23_NothingStartedAfterStop ==
    [][stopMonitor =>
         /\ ~(monPc = "select" /\ monPc' \in {"rpc", "handle"})
         /\ dialing' <= dialing]_vars

\* C30: if the server is reachable from some moment on (and the
\* application is not quit), the connection is re-established and the
\* status bar shows Connected.
C30_EventuallyReconnected ==
    []([](serverUp /\ uiRunning) => <>(connected /\ statsConnected))

\* -------------------------------------- properties of the batch identifiers
\* C31: every workflow identifier sent in a batch cancel or terminate call
\* is the (id, run_id) of a workflow the operator marked, also after a
\* refresh or a filter change between marking and confirming; no unmarked
\* workflow and no empty identifier is sent.
C31_OnlyMarkedSent ==
    [][batchesMade' = batchesMade + 1 =>
         \A b \in batches' \ batches :
            \A i \in 1..Len(b.workflows) :
               /\ b.workflows[i].WorkflowID # <<>>
               /\ \E m \in wl.markedAs :
                     /\ m.id = b.workflows[i].WorkflowID
                     /\ m.runID = b.workflows[i].RunID]_vars

\* ------------------------------------------- properties of the delete flow
\* The event loop runs the closure of a delete that succeeded.
DeleteDoneStep ==
    /\ uiRunning
    /\ uiQueue # <<>>
    /\ Head(uiQueue).kind = "DeleteWorkflow"
    /\ Head(uiQueue).ok
    /\ Len(uiQueue') = Len(uiQueue) - 1

\* C32: when a delete succeeds, exactly the workflow-detail screen that
\* issued it is removed from the view stack; when the operator has left that
\* screen before the delete completes, no other screen is popped.
C32_DeletePopsOwnScreen ==
    [][DeleteDoneStep =>
         IF Head(uiQueue).det
           THEN stack' = stack
           ELSE Top(stack) = "detail" /\ stack' = PagesPop(stack)]_vars

\* ----------------------------------------- properties of the Client's lock
\* C33: whenever IsConnected() returns true the Client holds a live
\* transport handle: no interleaving of CheckConnection and Reconnect leaves
\* connected = true while the handle is nil or closed.
C33_ConnectedHasHandle == connected => client = "live"

\* ------------------------------------------------ properties of the reset
\* No goroutine of the detail on the stack is inside a Provider call and no
\* closure of it is waiting in the update queue.
WdDrained ==
    /\ \A c \in calls : c.det
    /\ \A i \in 1..Len(uiQueue) :
          uiQueue[i].kind \in DetailKinds \cup {"ResetWorkflow"} => uiQueue[i].det

\* C34: after all fetches have drained, the info panel and the event list
\* of the workflow detail both belong to the screen's current run, also when
\* a reset to a new run completed while fetches for the old run were in
\* flight.
C34_PanelsOfCurrentRun ==
    (Top(stack) = "detail" /\ WdDrained) =>
        /\ wd.workflowView = "workflow" => wd.workflow = wd.runID
        /\ wd.eventTable = "events" => wd.events = wd.runID

\* ------------------------------------------ properties of the poller panel
\* No goroutine of the task-queue view is inside a Provider call and no
\* closure of it is waiting in the update queue.
TqDrained ==
    /\ tqFetches = {}
    /\ tqCalls = {}
    /\ \A i \in 1..Len(uiQueue) : uiQueue[i].kind \notin TqKinds

\* C35: after all in-flight task-queue fetches have drained, the poller
\* panel shows the outcome for the queue the cursor of the queue table is
\* on, whatever order the DescribeTaskQueue results arrived in.
C35_PollersOfSelectedQueue ==
    (tq # <<>> /\ Top(stack) = "task-queues" /\ TqDrained) =>
        LET t == tq[Len(tq)]
        IN t.pollers \in {"shown", "error"} => t.pollersOf = t.selRow

\* --------------------------------------- properties of the rows of the list
\* C36: the rows shown in the workflow list correspond one-to-one and in
\* order to wl.workflows, so the row under the cursor is the row of the item
\* that copy, diff or drill-down act on (wl.workflows[SelectedRow()]), also
\* after a failed refresh.
C36_CursorRowIsItsItem ==
    (wl.selRow >= 0 /\ wl.selRow < Len(wl.workflows)) =>
        /\ Len(wl.rows) = Len(wl.workflows)
        /\ wl.rows[wl.selRow + 1] = RowOf(wl.workflows[wl.selRow + 1])

\* ------------------------------------------- properties of batch progress
\* Every item of the modal of batch b has been marked completed or failed.
BatchSettled(b) ==
    \A i \in 1..Len(batchLog[b].items) :
        batchLog[b].items[i] \in {"completed", "failed"}

\* C37: after a batch operation is confirmed, every item in its modal
\* eventually leaves pending and is marked completed or failed, also when
\* the batched Provider call itself fails or returns fewer results than
\* items.
C37_EveryItemSettles ==
    \A b \in 1..MaxBatches : [](Len(batchLog) >= b => <>(Len(batchLog) >= b /\ BatchSettled(b)))

\* ------------------------------------ properties of the modal text inputs
\* The pages that are text inputs.
TextInputs == {"namespace-form", "visibility-query"}

\* C38: while a modal text input is open (namespace form, visibility-query
\* input) the keys typed into it are not taken by the global key handler:
\* typing q does not quit the application and Backspace or Esc does not pop
\* the screen beneath the modal.
C38_InputKeysNotGlobal ==
    [][(uiRunning /\ modal \in TextInputs) => (uiRunning' /\ stack' = stack)]_vars

\* C39: whenever the visibility input is opened with a non-empty history,
\* browsing starts from the newest entry: the first Up after the opening
\* shows the most recently submitted query, whatever was browsed and
\* submitted during earlier openings.
C39_FirstUpShowsNewest ==
    [][(modal = "visibility-query" /\ searchHistory # <<>>
          /\ vqPos = 0 /\ vqPos' = 1)
        => vqText' = searchHistory[Len(searchHistory)]]_vars

====
